---- MODULE Spec2Model ----
(***************************************************************************)
(* A model of the Enigma simulator of src/enigma.py (26-symbol machine)    *)
(* and src/Principles_of_Programming/EnigmaAdvanced.py (36-symbol machine  *)
(* with the session-key prefix protocol).                                  *)
(*                                                                         *)
(* Symbols are one-character strings, texts are sequences of symbols.      *)
(* Python's 0-based list indices are kept; TLA+ sequences are 1-based, so  *)
(* list[i] is written seq[i + 1].                                          *)
(***************************************************************************)
EXTENDS Integers, Sequences, FiniteSets, TLC

VARIABLES
    pb,         \* SpecPlug: the Plugboard / AdvancedPlugboard object
    pbLast,     \* SpecPlug: the last call made on it, its outcome and its pre-state
    ld,         \* SpecLead: a PlugLead / AdvancedPlugLead object and the last call on it
    ce,         \* SpecStep: the Commercial_enigma / Commercial_enigma_advanced object
    ceLast,     \* SpecStep: the last call made on it, its outcome and its pre-state
    ceCalls,    \* SpecStep: the number of calls made on it
    rt,         \* SpecRT: a sender and a receiver Enigma / AdvancedEnigma and their texts
    adv,        \* SpecAdv: a sender and a receiver under the session-key protocol
    ro          \* SpecRotor: a Rotor / AdvancedRotor object and the last call made on it

plugVars == <<pb, pbLast, ld>>
stepVars == <<ce, ceLast, ceCalls>>

vars == <<pb, pbLast, ld, ce, ceLast, ceCalls, rt, adv, ro>>

----------------------------------------------------------------------------
(* Alphabets and character codes                                           *)

Letters ==
    <<"A","B","C","D","E","F","G","H","I","J","K","L","M",
      "N","O","P","Q","R","S","T","U","V","W","X","Y","Z">>

Digits == <<"0","1","2","3","4","5","6","7","8","9">>

\* AdvancedRotor.lineup: the 36-symbol alphabet, letters first.
lineup == Letters \o Digits

\* The ASCII characters with codes 48..90, in code order.
Ascii ==
    Digits \o <<":",";","<","=",">","?","@">> \o Letters

LetterSet == {Letters[i] : i \in 1..Len(Letters)}
DigitSet == {Digits[i] : i \in 1..Len(Digits)}
LineupSet == LetterSet \cup DigitSet

\* list.index(x): the 0-based index of the first occurrence of x.
ListIndex(seq, x) ==
    (CHOOSE i \in 1..Len(seq) :
        /\ seq[i] = x
        /\ \A j \in 1..(i - 1) : seq[j] # x) - 1

\* x in list
InList(seq, x) == \E i \in 1..Len(seq) : seq[i] = x

\* ord(c) and chr(n) on the characters the program handles.
OrdTable == [c \in {Ascii[i] : i \in 1..Len(Ascii)} |-> 48 + ListIndex(Ascii, c)]
Ord(c) == OrdTable[c]
Chr(n) == Ascii[n - 47]

\* str.isalpha() and str.isupper() / str.isnumeric() of a one-character string.
IsUpperAlpha(c) == c \in LetterSet
IsNumeric(c) == c \in DigitSet

----------------------------------------------------------------------------
(* PlugLead / AdvancedPlugLead: a lead is its pair, the set of its two     *)
(* symbols (__eq__ and __hash__ are those of the pair).                    *)

\* PlugLead(mapping).__pair for a two-character mapping <<a, b>>.
PlugLead(mapping) == {mapping[1], mapping[2]}

\* min(pair) and max(pair): Python orders characters by code.
first_letter(pl) == CHOOSE a \in pl : \A b \in pl : Ord(a) <= Ord(b)
last_letter(pl) == CHOOSE a \in pl : \A b \in pl : Ord(a) >= Ord(b)

\* The characters PlugLead.encode (letters) and AdvancedPlugLead.encode
\* (letters and digits) accept.
ValidSymbol(kind, character) ==
    IF kind = "classic"
    THEN IsUpperAlpha(character)
    ELSE IsUpperAlpha(character) \/ IsNumeric(character)

\* PlugLead.encode(character); "ValueError" when it raises.
PlugLeadEncode(kind, pl, character) ==
    IF ~ValidSymbol(kind, character)
    THEN "ValueError"
    ELSE IF character \in pl
    THEN CHOOSE o \in pl : o # character
    ELSE character

\* The lead as an object: its pair and the two letters its constructor
\* keeps beside it.
LeadObject(kind, pair, first, last) ==
    [kind |-> kind, pair |-> pair, first_letter |-> first, last_letter |-> last]
NoLeadObject == LeadObject("none", {}, "", "")

\* The result of a call on a lead: the object after it and the exception
\* raised ("none" when it returned).
LeadResult(l, exc) == [lead |-> l, exc |-> exc]

\* str.isalpha() and str.isupper() of a string.
UpperAlphaString(mapping) ==
    mapping # <<>> /\ \A i \in 1..Len(mapping) : IsUpperAlpha(mapping[i])

\* PlugLead.__init__(mapping) / AdvancedPlugLead.__init__(mapping) for a
\* string without white space. AdvancedPlugLead tests char.isupper() or
\* char.isalpha() or char.isnumeric, the last a method object that is always
\* true, so its test of the characters rejects nothing.
PlugLeadInit(kind, mapping) ==
    IF kind = "classic" /\ ~UpperAlphaString(mapping)
    THEN LeadResult(NoLeadObject, "ValueError")
    ELSE IF Len(mapping) # 2 THEN LeadResult(NoLeadObject, "ValueError")
    ELSE IF mapping[1] = mapping[2] THEN LeadResult(NoLeadObject, "ValueError")
    ELSE LeadResult(LeadObject(kind, PlugLead(mapping), first_letter(PlugLead(mapping)),
                               last_letter(PlugLead(mapping))), "none")

\* PlugLead.rewire(new_mapping) / AdvancedPlugLead.rewire(new_mapping): both
\* test isalpha() and isupper(), then the length; only the pair is assigned.
PlugLeadRewire(l, new_mapping) ==
    IF ~UpperAlphaString(new_mapping) THEN LeadResult(l, "ValueError")
    ELSE IF Len(new_mapping) # 2 THEN LeadResult(l, "ValueError")
    ELSE LeadResult([l EXCEPT !.pair = {new_mapping[1], new_mapping[2]}], "none")

\* PlugLead.encode(character) on the object; next(iter(...)) of an empty
\* set raises StopIteration.
LeadObjectEncode(l, character) ==
    IF ~ValidSymbol(l.kind, character) THEN "ValueError"
    ELSE IF character \in l.pair
    THEN IF l.pair \ {character} = {} THEN "StopIteration"
         ELSE CHOOSE o \in l.pair : o # character
    ELSE character

----------------------------------------------------------------------------
(* Plugboard / AdvancedPlugboard                                           *)

\* Plugboard.connection_limit and AdvancedPlugboard.connection_limit
ClassicLimit == 10
AdvancedLimit == 18

connection_limit(kind) == IF kind = "classic" THEN ClassicLimit ELSE AdvancedLimit

\* The exception add raises when both symbols are occupied: the classic
\* message reads pl.__first_letter inside class Plugboard, which Python
\* mangles to pl._Plugboard__first_letter, an attribute that does not exist.
BothOccupiedExc(kind) == IF kind = "classic" THEN "AttributeError" ELSE "ValueError"

EmptyBoard(kind) ==
    [kind |-> kind, connections |-> {}, occupied_letters |-> {}]

\* The outcome of a call: the board after it, the exception raised ("none"
\* when it returned) and whether a warning was issued.
Outcome(b, exc, warned) == [pb |-> b, exc |-> exc, warned |-> warned]

\* A plausible slip: the capacity test left out of add.
PlugboardAddNoLimit(b, pl) ==
    IF first_letter(pl) \in b.occupied_letters \/ last_letter(pl) \in b.occupied_letters
    THEN Outcome(b, "ValueError", FALSE)
    ELSE Outcome([b EXCEPT !.connections = @ \cup {pl},
                           !.occupied_letters = @ \cup pl],
                 "none", pl \in b.connections)

\* A plausible slip: the test of the lead's last symbol left out of add.
PlugboardAddLastUnchecked(b, pl) ==
    IF first_letter(pl) \in b.occupied_letters
    THEN Outcome(b, "ValueError", FALSE)
    ELSE IF Cardinality(b.connections) >= connection_limit(b.kind)
    THEN Outcome(b, "none", TRUE)
    ELSE Outcome([b EXCEPT !.connections = @ \cup {pl},
                           !.occupied_letters = @ \cup pl],
                 "none", pl \in b.connections)

\* Plugboard.add(pl)
PlugboardAdd(b, pl) ==
    IF first_letter(pl) \in b.occupied_letters /\ last_letter(pl) \in b.occupied_letters
    THEN Outcome(b, BothOccupiedExc(b.kind), FALSE)
    ELSE IF first_letter(pl) \in b.occupied_letters
    THEN Outcome(b, "ValueError", FALSE)
    ELSE IF last_letter(pl) \in b.occupied_letters
    THEN Outcome(b, "ValueError", FALSE)
    ELSE IF Cardinality(b.connections) >= connection_limit(b.kind)
    THEN Outcome(b, "none", TRUE)
    ELSE Outcome([b EXCEPT !.connections = @ \cup {pl},
                           !.occupied_letters = @ \cup pl],
                 "none", pl \in b.connections)

\* A plausible slip: set.discard in place of the membership test, so that
\* removing an absent lead passes silently.
PlugboardRemoveDiscard(b, pl) ==
    Outcome([b EXCEPT !.connections = @ \ {pl}], "none", FALSE)

\* Plugboard.remove(pl)
PlugboardRemove(b, pl) ==
    IF pl \in b.connections
    THEN Outcome([b EXCEPT !.connections = @ \ {pl}], "none", FALSE)
    ELSE Outcome(b, "ValueError", FALSE)

\* for lead in leads: self.add(PlugLead(lead)), from index i on; the loop
\* ends at the first exception and keeps what it had added.
RECURSIVE AddAll(_, _, _, _)
AddAll(b, leads, i, warned) ==
    IF i > Len(leads)
    THEN Outcome(b, "none", warned)
    ELSE LET r == PlugboardAdd(b, PlugLead(leads[i]))
         IN IF r.exc # "none"
            THEN Outcome(r.pb, r.exc, warned)
            ELSE AddAll(r.pb, leads, i + 1, warned \/ r.warned)

\* Plugboard.__init__(leads); leads = None and leads = [] both add nothing.
PlugboardInit(kind, leads) == AddAll(EmptyBoard(kind), leads, 1, FALSE)

\* Plugboard.reset(leads): only the connections are cleared.
PlugboardReset(b, leads) ==
    AddAll([b EXCEPT !.connections = {}], leads, 1, FALSE)

\* A plausible slip: the test "character in pl.__pair" left out, so that
\* the last lead of the iteration always answers.
PlugboardEncodeLastOnly(b, character) ==
    IF b.connections = {}
    THEN {"ValueError"}
    ELSE {PlugLeadEncode(b.kind, pl, character) : pl \in b.connections}

\* Plugboard.encode(character): the set of results the iteration orders of
\* the connection set can give ("ValueError" when the loop body never
\* returns). The first lead holding the character answers; when none does,
\* the last lead of the iteration answers.
PlugboardEncode(b, character) ==
    IF b.connections = {}
    THEN {"ValueError"}
    ELSE IF \E pl \in b.connections : character \in pl
    THEN {PlugLeadEncode(b.kind, pl, character) : pl \in {q \in b.connections : character \in q}}
    ELSE {PlugLeadEncode(b.kind, pl, character) : pl \in b.connections}

----------------------------------------------------------------------------
(* Rotor wirings: the historical table of Rotor.__init__ and the 36-symbol *)
(* custom rotors of the demonstration in EnigmaAdvanced.py.                *)

NamedRotors == {"I", "II", "III", "IV", "V", "Beta", "Gamma", "A", "B", "C"}

NamedWiring(n) ==
    CASE n = "I" ->
        <<"E","K","M","F","L","G","D","Q","V","Z","N","T","O",
          "W","Y","H","X","U","S","P","A","I","B","R","C","J">>
      [] n = "II" ->
        <<"A","J","D","K","S","I","R","U","X","B","L","H","W",
          "T","M","C","Q","G","Z","N","P","Y","F","V","O","E">>
      [] n = "III" ->
        <<"B","D","F","H","J","L","C","P","R","T","X","V","Z",
          "N","Y","E","I","W","G","A","K","M","U","S","Q","O">>
      [] n = "IV" ->
        <<"E","S","O","V","P","Z","J","A","Y","Q","U","I","R",
          "H","X","L","N","F","T","G","K","D","C","M","W","B">>
      [] n = "V" ->
        <<"V","Z","B","R","G","I","T","Y","U","P","S","D","N",
          "H","L","X","A","W","M","J","Q","O","F","E","C","K">>
      [] n = "Beta" ->
        <<"L","E","Y","J","V","C","N","I","X","W","P","B","Q",
          "M","D","R","T","A","K","Z","G","F","U","H","O","S">>
      [] n = "Gamma" ->
        <<"F","S","O","K","A","N","U","E","R","H","M","B","T",
          "I","Y","C","W","L","Q","P","Z","X","V","G","J","D">>
      [] n = "A" ->
        <<"E","J","M","Z","A","L","Y","X","V","B","W","F","C",
          "R","Q","U","O","N","T","S","P","I","K","H","G","D">>
      [] n = "B" ->
        <<"Y","R","U","H","Q","S","L","D","P","X","N","G","O",
          "K","M","I","E","B","F","Z","C","W","V","J","A","T">>
      [] n = "C" ->
        <<"F","V","P","J","I","A","O","Y","E","D","R","Z","X",
          "W","G","C","T","K","U","Q","S","B","N","M","H","L">>

\* "None" stands for Python's None: a notch is a one-character string.
NamedNotch(n) ==
    CASE n = "I" -> "Q"
      [] n = "II" -> "E"
      [] n = "III" -> "V"
      [] n = "IV" -> "J"
      [] n = "V" -> "Z"
      [] OTHER -> "None"

NamedIsReflector(n) == n \in {"A", "B", "C"}

\* The rotor_type argument: a historical name, a (wiring, notch) tuple or a
\* wiring list.
Named(n) == [tag |-> "named", name |-> n, mapping |-> <<>>, notch |-> "None"]
CustomTuple(w, notch) == [tag |-> "tuple", name |-> "", mapping |-> w, notch |-> notch]
CustomList(w) == [tag |-> "list", name |-> "", mapping |-> w, notch |-> "None"]

rtr0 == CustomTuple(
      <<"E","K","M","F","L","G","D","Q","V","Z","N","T","O",
        "0","W","Y","H","X","U","S","P","A","I","B","R","C",
        "J","3","4","6","1","2","7","5","9","8">>, "B")

rtr1 == CustomList(
      <<"E","K","M","F","L","G","D","Q","V","Z","N","T","O",
        "W","Y","H","X","U","S","P","A","I","B","R","C","J",
        "3","4","6","1","2","7","5","9","0","8">>)

rtr2 == CustomList(
      <<"E","K","M","F","L","G","D","Q","V","Z","N","T","O",
        "W","Y","H","X","U","S","P","A","I","B","R","C","J">>)

rflctr == CustomList(
      <<"F","V","P","J","I","A","O","Y","E","D","R","Z","X",
        "W","G","C","T","K","U","Q","S","B","N","M","H","L",
        "0","6","2","7","9","8","1","3","5","4">>)

cer1 == CustomTuple(
      <<"4","K","M","F","L","9","0","D","Q","V","Z","N","T",
        "O","W","Y","5","X","U","S","P","A","I","B","R","C",
        "J","3","E","6","1","2","7","H","G","8">>, "4")

cer2 == CustomTuple(
      <<"4","K","M","W","L","9","D","Q","V","Z","N","T","O",
        "F","Y","0","5","X","U","S","P","1","I","B","R","C",
        "J","3","E","6","A","2","7","H","G","8">>, "J")

cer3 == CustomList(
      <<"4","K","C","0","W","L","9","D","Q","V","Z","N","T",
        "O","F","Y","5","X","U","S","P","1","I","B","R","M",
        "J","3","E","6","A","2","7","H","G","8">>)

----------------------------------------------------------------------------
(* Rotor / AdvancedRotor                                                   *)

\* A rotor object. wide is AdvancedRotor's "tuple_bool or list_bool": the
\* rotor works on the 36-symbol lineup instead of the letters.
RotorObject(rotor_type, w, notch, is_reflector, ring, position, wide) ==
    [mapping |-> w, notch |-> notch, is_reflector |-> is_reflector,
     ring |-> ring, position |-> position, wide |-> wide,
     rotor_input |-> rotor_type]

NoRotor == RotorObject(Named(""), <<>>, "None", FALSE, 1, "A", FALSE)

Built(r) == [exc |-> "none", rotor |-> r]
NotBuilt == [exc |-> "ValueError", rotor |-> NoRotor]

\* The value v of a call, handed to what follows the call.
Bind(v, F(_)) == F(v)

\* [F(i) for i in range(1, n + 1)]: a list built by a comprehension.
ListOf(n, F(_)) == SubSeq([i \in 1..n |-> F(i)], 1, n)

AllIn(seq, S) == \A i \in 1..Len(seq) : seq[i] \in S
Distinct(seq) == \A i \in 1..Len(seq) : \A j \in 1..Len(seq) : seq[i] = seq[j] => i = j

\* Rotor.__init__(rotor_type, ring, position)
RotorInit(rotor_type, ring, position) ==
    IF ring < 1 \/ ring > 26 THEN NotBuilt
    ELSE IF ~IsUpperAlpha(position) THEN NotBuilt
    ELSE IF rotor_type.tag = "named" /\ rotor_type.name \in NamedRotors
    THEN Built(RotorObject(rotor_type, NamedWiring(rotor_type.name),
                           NamedNotch(rotor_type.name),
                           NamedIsReflector(rotor_type.name), ring, position, FALSE))
    ELSE IF /\ rotor_type.tag = "tuple"
            /\ Len(rotor_type.mapping) = 26
            /\ AllIn(rotor_type.mapping, LetterSet)
            /\ IsUpperAlpha(rotor_type.notch)
    THEN Built(RotorObject(rotor_type, rotor_type.mapping, rotor_type.notch,
                           FALSE, ring, position, FALSE))
    ELSE IF rotor_type.tag = "list" /\ Len(rotor_type.mapping) = 26
    THEN Built(RotorObject(rotor_type, rotor_type.mapping, "None",
                           FALSE, ring, position, FALSE))
    ELSE NotBuilt

\* AdvancedRotor.__init__(rotor_type, ring, position)
AdvancedRotorInit(rotor_type, ring, position) ==
    IF ring < 1 \/ ring > 36 THEN NotBuilt
    ELSE IF ~(IsUpperAlpha(position) \/ IsNumeric(position)) THEN NotBuilt
    ELSE IF /\ rotor_type.tag = "tuple"
            /\ Len(rotor_type.mapping) = 36
            /\ Distinct(rotor_type.mapping)
            /\ AllIn(rotor_type.mapping, LineupSet)
            /\ rotor_type.notch \in LineupSet
    THEN Built(RotorObject(rotor_type, rotor_type.mapping, rotor_type.notch,
                           FALSE, ring, position, TRUE))
    ELSE IF /\ rotor_type.tag = "list"
            /\ Len(rotor_type.mapping) = 36
            /\ AllIn(rotor_type.mapping, LineupSet)
    THEN Built(RotorObject(rotor_type, rotor_type.mapping, "None",
                           FALSE, ring, position, TRUE))
    ELSE RotorInit(rotor_type, ring, position)

\* Rotor.advance_position and AdvancedRotor.advance_position: the position
\* after one advance.
advance_position(r) ==
    IF r.wide
    THEN IF r.position = "9"
         THEN "A"
         ELSE lineup[(ListIndex(lineup, r.position) + 1) + 1]
    ELSE IF r.position = "Z"
         THEN "A"
         ELSE Chr(Ord(r.position) + 1)

\* Rotor.check_notch
check_notch(r) == r.position = r.notch

\* A call that raises ValueError returns this in place of a symbol.
Raises == "ValueError"

\* Rotor.encode_right_to_left / AdvancedRotor.encode_right_to_left
encode_right_to_left(r, char) ==
    IF r.wide
    THEN IF ~(IsUpperAlpha(char) \/ IsNumeric(char))
         THEN Raises
         ELSE r.mapping[ListIndex(lineup, char) + 1]
    ELSE IF ~IsUpperAlpha(char)
         THEN Raises
         ELSE r.mapping[(Ord(char) - Ord("A")) + 1]

\* A plausible slip: the wiring read forward in both directions.
encode_left_to_right_forward(r, char) == encode_right_to_left(r, char)

\* Rotor.encode_left_to_right / AdvancedRotor.encode_left_to_right;
\* mapping.index(char) raises ValueError when the wiring lacks char.
encode_left_to_right(r, char) ==
    IF r.wide
    THEN IF ~(IsUpperAlpha(char) \/ IsNumeric(char)) \/ ~InList(r.mapping, char)
         THEN Raises
         ELSE lineup[ListIndex(r.mapping, char) + 1]
    ELSE IF ~IsUpperAlpha(char) \/ ~InList(r.mapping, char)
         THEN Raises
         ELSE Chr(ListIndex(r.mapping, char) + Ord("A"))

\* A plausible slip: the ring setting left out of the offset.
OffsetWithoutRing(r) ==
    IF r.wide
    THEN ListIndex(lineup, r.position)
    ELSE Ord(r.position) - Ord("A")

\* offset = index(position) - ring + 1
Offset(r) ==
    IF r.wide
    THEN ListIndex(lineup, r.position) - r.ring + 1
    ELSE Ord(r.position) - Ord("A") - r.ring + 1

\* offset_char: the input shifted by +offset. lineup.index raises
\* ValueError for a symbol outside the lineup.
ShiftIn(r, char) ==
    IF r.wide
    THEN IF ~InList(lineup, char) \/ ~InList(lineup, r.position)
         THEN Raises
         ELSE lineup[((ListIndex(lineup, char) + Offset(r)) % 36) + 1]
    ELSE Chr(((Ord(char) - 65 + Offset(r)) % 26) + 65)

\* encode_reverse_offset_char: the wiring's output shifted by -offset.
ShiftOut(r, char) ==
    IF r.wide
    THEN IF ~InList(lineup, char)
         THEN Raises
         ELSE lineup[((ListIndex(lineup, char) - Offset(r)) % 36) + 1]
    ELSE Chr(((Ord(char) - 65 - Offset(r)) % 26) + 65)

\* Rotor.encode_offset_rtl / AdvancedRotor.encode_offset_rtl
encode_offset_rtl(r, char) ==
    Bind(ShiftIn(r, char), LAMBDA offset_char :
        IF offset_char = Raises THEN Raises
        ELSE Bind(encode_right_to_left(r, offset_char), LAMBDA encode_char :
                IF encode_char = Raises THEN Raises
                ELSE ShiftOut(r, encode_char)))

\* Rotor.encode_offset_ltr / AdvancedRotor.encode_offset_ltr
encode_offset_ltr(r, char) ==
    Bind(ShiftIn(r, char), LAMBDA offset_char :
        IF offset_char = Raises THEN Raises
        ELSE Bind(encode_left_to_right(r, offset_char), LAMBDA encode_char :
                IF encode_char = Raises THEN Raises
                ELSE ShiftOut(r, encode_char)))

\* The keys of valid_reflector's dictionary: zip(alphabet, mapping).
ReflectorKeys(r) ==
    LET abc == IF r.wide THEN lineup ELSE Letters
    IN SubSeq(abc, 1, IF Len(r.mapping) < Len(abc) THEN Len(r.mapping) ELSE Len(abc))

\* Rotor.valid_reflector / AdvancedRotor.valid_reflector: "True", "False",
\* or "ValueError" when list.index finds no key mapped to the one looked up.
\* dic[key] is the wiring at the key's last occurrence in the alphabet, and
\* the alphabets have no repeated symbol.
valid_reflector(r) ==
    IF r.notch # "None" THEN "False"
    ELSE LET keys == ReflectorKeys(r)
             vals == SubSeq(r.mapping, 1, Len(keys))
             Bad(i) == \/ ~InList(vals, keys[i])
                       \/ vals[i] # keys[ListIndex(vals, keys[i]) + 1]
         IN IF \A i \in 1..Len(keys) : ~Bad(i)
            THEN "True"
            ELSE LET i == CHOOSE k \in 1..Len(keys) :
                              Bad(k) /\ \A j \in 1..(k - 1) : ~Bad(j)
                 IN IF InList(vals, keys[i]) THEN "False" ELSE "ValueError"

----------------------------------------------------------------------------
(* Commercial_enigma / Commercial_enigma_advanced: the rotor stack         *)

\* An optional argument: None, or a given value.
None == [given |-> FALSE, val |-> <<>>]
Some(v) == [given |-> TRUE, val |-> v]

\* The machine object; kind is "classic" (Rotor objects, enigma.py) or
\* "advanced" (AdvancedRotor objects, EnigmaAdvanced.py).
Machine(kind, rotors) ==
    [kind |-> kind, rotors |-> rotors,
     ring_length |-> Len(rotors) - 1, position_length |-> Len(rotors) - 1]

NoMachine == [kind |-> "none", rotors |-> <<>>, ring_length |-> 0, position_length |-> 0]

Returned(m) == [exc |-> "none", ce |-> m]
Raised(m) == [exc |-> "ValueError", ce |-> m]

RingMax(kind) == IF kind = "classic" THEN 26 ELSE 36

ValidPosition(kind, position) ==
    IF kind = "classic"
    THEN IsUpperAlpha(position)
    ELSE IsUpperAlpha(position) \/ IsNumeric(position)

\* The loop of ring_settings from index i on: an invalid entry raises and
\* the rings set before it stay set.
RECURSIVE SetRings(_, _, _)
SetRings(m, rings, i) ==
    IF i >= Len(rings) THEN Returned(m)
    ELSE IF rings[i + 1] < 1 \/ rings[i + 1] > RingMax(m.kind) THEN Raised(m)
    ELSE SetRings([m EXCEPT !.rotors[i + 2].ring = rings[i + 1]], rings, i + 1)

\* Commercial_enigma.ring_settings(rings)
CE_ring_settings(m, rings) ==
    IF Len(rings) # Len(m.rotors) - 1 THEN Raised(m) ELSE SetRings(m, rings, 0)

RECURSIVE SetPositions(_, _, _)
SetPositions(m, positions, i) ==
    IF i >= Len(positions) THEN Returned(m)
    ELSE IF ~ValidPosition(m.kind, positions[i + 1]) THEN Raised(m)
    ELSE SetPositions([m EXCEPT !.rotors[i + 2].position = positions[i + 1]],
                      positions, i + 1)

\* Commercial_enigma.position_settings(positions)
CE_position_settings(m, positions) ==
    IF Len(positions) # Len(m.rotors) - 1 THEN Raised(m) ELSE SetPositions(m, positions, 0)

\* Commercial_enigma.swap_rotors(rotors): len(self.ring_length) is len of
\* an int, which raises TypeError before any assignment.
CE_swap_rotors(m, rotors) ==
    IF Len(rotors) \notin {4, 5} THEN Raised(m)
    ELSE [exc |-> "TypeError", ce |-> m]

\* Rotor(rotor_type, ring, position) or AdvancedRotor(rotor_type, ring,
\* position).
BuildRotorWith(kind, rotor_type, ring, position) ==
    IF kind = "classic"
    THEN RotorInit(rotor_type, ring, position)
    ELSE AdvancedRotorInit(rotor_type, ring, position)

\* Rotor(input) or AdvancedRotor(input), with the default ring and position.
BuildRotor(kind, rotor_type) ==
    IF kind = "classic"
    THEN RotorInit(rotor_type, 1, "A")
    ELSE AdvancedRotorInit(rotor_type, 1, "A")

\* Commercial_enigma.__init__(rotors, rings, positions)
CE_init(kind, rotor_types, rings, positions) ==
    IF Len(rotor_types) \notin {4, 5} THEN Raised(NoMachine)
    ELSE LET built == ListOf(Len(rotor_types), LAMBDA i : BuildRotor(kind, rotor_types[i]))
         IN IF \E i \in 1..Len(rotor_types) : built[i].exc # "none"
            THEN Raised(NoMachine)
            ELSE LET rs0 == ListOf(Len(rotor_types), LAMBDA i : built[i].rotor)
                 IN IF ~rs0[1].is_reflector /\ valid_reflector(rs0[1]) # "True"
                    THEN Raised(NoMachine)
                    ELSE LET rs == [rs0 EXCEPT ![1].is_reflector = TRUE]
                         IN IF \E i \in 2..Len(rs) : rs[i].is_reflector
                            THEN Raised(NoMachine)
                            ELSE LET r1 == IF rings.given
                                           THEN CE_ring_settings(Machine(kind, rs), rings.val)
                                           ELSE Returned(Machine(kind, rs))
                                 IN IF r1.exc # "none"
                                    THEN Raised(NoMachine)
                                    ELSE IF positions.given
                                    THEN LET r2 == CE_position_settings(r1.ce, positions.val)
                                         IN IF r2.exc # "none" THEN Raised(NoMachine) ELSE r2
                                    ELSE r1

\* rotors[i].advance_position()
AdvanceAt(rotors, i) == [rotors EXCEPT ![i].position = advance_position(rotors[i])]

\* A plausible slip: the test "if not rot1" left out, so that the middle
\* rotor advances twice when both notches are engaged.
CE_rotateNoGuard(m) ==
    LET n == Len(m.rotors)
        rot1 == m.rotors[n].position = m.rotors[n].notch
        rot2 == m.rotors[n - 1].position = m.rotors[n - 1].notch
        s1 == AdvanceAt(m.rotors, n)
        s2 == IF rot1 THEN AdvanceAt(s1, n - 1) ELSE s1
        s3 == IF rot2 THEN AdvanceAt(AdvanceAt(s2, n - 1), n - 2) ELSE s2
    IN [m EXCEPT !.rotors = s3]

\* A plausible slip: no double step, the middle rotor's own notch moves
\* only the rotor to its left.
CE_rotateNoDoubleStep(m) ==
    LET n == Len(m.rotors)
        rot1 == m.rotors[n].position = m.rotors[n].notch
        rot2 == m.rotors[n - 1].position = m.rotors[n - 1].notch
        s1 == AdvanceAt(m.rotors, n)
        s2 == IF rot1 THEN AdvanceAt(s1, n - 1) ELSE s1
        s3 == IF rot2 THEN AdvanceAt(s2, n - 2) ELSE s2
    IN [m EXCEPT !.rotors = s3]

\* Commercial_enigma.rotate: rotors[-1], rotors[-2], rotors[-3] are the
\* rotors at n, n - 1, n - 2.
CE_rotate(m) ==
    LET n == Len(m.rotors)
        rot1 == m.rotors[n].position = m.rotors[n].notch
        rot2 == m.rotors[n - 1].position = m.rotors[n - 1].notch
        s1 == AdvanceAt(m.rotors, n)
        s2 == IF rot1 THEN AdvanceAt(s1, n - 1) ELSE s1
        s3 == IF rot2
              THEN AdvanceAt(IF ~rot1 THEN AdvanceAt(s2, n - 1) ELSE s2, n - 2)
              ELSE s2
    IN [m EXCEPT !.rotors = s3]

\* for i in range(-1, -len(rotors)-1, -1): char = rotors[i].encode_offset_rtl(char)
\* An exception ends the loop.
RECURSIVE PassRtl(_, _, _)
PassRtl(rotors, i, char) ==
    IF i < 1 THEN char
    ELSE Bind(encode_offset_rtl(rotors[i], char), LAMBDA c :
            IF c = Raises THEN Raises ELSE PassRtl(rotors, i - 1, c))

\* for i in range(1, len(rotors)): char = rotors[i].encode_offset_ltr(char)
RECURSIVE PassLtr(_, _, _)
PassLtr(rotors, i, char) ==
    IF i > Len(rotors) THEN char
    ELSE Bind(encode_offset_ltr(rotors[i], char), LAMBDA c :
            IF c = Raises THEN Raises ELSE PassLtr(rotors, i + 1, c))

\* The two loops of encode on the rotors as they stand.
Substitute(rotors, char) ==
    Bind(PassRtl(rotors, Len(rotors), char), LAMBDA c :
        IF c = Raises THEN Raises ELSE PassLtr(rotors, 2, c))

\* The result of an encode call: the machine after it, what it returned and
\* the exception it raised ("none" when it returned).
Encoded(m, out) ==
    [ce |-> m, out |-> out, exc |-> IF out = Raises THEN "ValueError" ELSE "none"]

\* A plausible slip: the substitution done before the rotors step.
CE_encodeSubstituteFirst(m, char) == Encoded(CE_rotate(m), Substitute(m.rotors, char))

\* Commercial_enigma.encode(char): the rotors step, then the symbol is
\* substituted on the stepped rotors.
CE_encode(m, char) ==
    Bind(CE_rotate(m), LAMBDA stepped :
        Encoded(stepped, Substitute(stepped.rotors, char)))

\* Commercial_enigma.encode_string(string), from index i on; out is the
\* text encoded so far. An exception ends the loop with the rotors as the
\* failing call left them.
RECURSIVE CE_encode_from(_, _, _, _)
CE_encode_from(m, string, i, out) ==
    IF i > Len(string) THEN [ce |-> m, out |-> out, exc |-> "none"]
    ELSE Bind(CE_encode(m, string[i]), LAMBDA r :
            IF r.exc # "none"
            THEN [ce |-> r.ce, out |-> out, exc |-> r.exc]
            ELSE CE_encode_from(r.ce, string, i + 1, Append(out, r.out)))

CE_encode_string(m, string) == CE_encode_from(m, string, 1, <<>>)

----------------------------------------------------------------------------
(* SpecPlug: a plugboard under add, remove, reset and encode calls         *)

\* How many of the candidate leads the calls draw from.
MaxLeads == 6

L4 == <<(<<"S","Z">>), <<"G","T">>, <<"D","V">>, <<"K","U">>>>
L9 == <<(<<"A","B">>), <<"C","D">>, <<"E","F">>, <<"G","H">>, <<"I","J">>,
        <<"K","L">>, <<"M","N">>, <<"O","P">>, <<"Q","R">>>>
L10 == L9 \o <<(<<"S","T">>)>>
L11 == L10 \o <<(<<"U","V">>)>>
A6 == L4 \o <<(<<"8","0">>), <<"W","7">>>>
A17 == L11 \o <<(<<"W","X">>), <<"Y","Z">>, <<"0","1">>, <<"2","3">>,
                <<"4","5">>, <<"6","7">>>>
A18 == A17 \o <<(<<"8","9">>)>>

\* The lead lists a board is constructed or reset from.
LeadLists(kind) ==
    IF kind = "classic"
    THEN {<<>>, L4, L9, L10, L11}
    ELSE {<<>>, A6, A17, A18}

\* The leads add and remove are called with.
CandidateLeads(kind) ==
    IF kind = "classic"
    THEN <<(<<"U","V">>), <<"A","B">>, <<"S","T">>, <<"W","X">>, <<"A","C">>,
           <<"S","Z">>, <<"Y","Z">>>>
    ELSE <<(<<"8","9">>), <<"A","B">>, <<"W","7">>, <<"Y","Z">>, <<"A","8">>,
           <<"6","7">>, <<"S","Z">>>>

CallLeads(kind) ==
    {PlugLead(CandidateLeads(kind)[i]) :
        i \in 1..(IF MaxLeads < Len(CandidateLeads(kind))
                  THEN MaxLeads ELSE Len(CandidateLeads(kind)))}

\* The symbols encode is called with.
CallSymbols(kind) ==
    IF kind = "classic" THEN {"A", "K", "U", "Z"} ELSE {"A", "K", "7", "8"}

NoLead == {}

Call(op, lead, sym, exc, warned, ret, pre) ==
    [op |-> op, lead |-> lead, sym |-> sym, exc |-> exc, warned |-> warned,
     ret |-> ret, pre |-> pre]

\* The objects a specification does not use stay as they are here.
NoBoard == EmptyBoard("none")
NoCall == [op |-> "none"]
NoRun == [phase |-> "none"]
LeadIdle == ld = NoRun
PlugIdle == pb = NoBoard /\ pbLast = NoCall /\ LeadIdle
StepIdle == ce = NoMachine /\ ceLast = NoCall /\ ceCalls = 0
RtIdle == rt = NoRun
AdvIdle == adv = NoRun
RoIdle == ro = NoRun

InitPlug ==
    /\ LeadIdle
    /\ StepIdle
    /\ RtIdle
    /\ AdvIdle
    /\ RoIdle
    /\ \E kind \in {"classic", "advanced"} : \E leads \in LeadLists(kind) :
          /\ PlugboardInit(kind, leads).exc = "none"
          /\ pb = PlugboardInit(kind, leads).pb
          /\ pbLast = Call("init", NoLead, "", "none",
                           PlugboardInit(kind, leads).warned, "", EmptyBoard(kind))

Add ==
    \E pl \in CallLeads(pb.kind) :
        LET r == PlugboardAdd(pb, pl)
        IN /\ pb' = r.pb
           /\ pbLast' = Call("add", pl, "", r.exc, r.warned, "", pb)
           /\ UNCHANGED <<ld, stepVars, rt, adv, ro>>

Remove ==
    \E pl \in CallLeads(pb.kind) :
        LET r == PlugboardRemove(pb, pl)
        IN /\ pb' = r.pb
           /\ pbLast' = Call("remove", pl, "", r.exc, r.warned, "", pb)
           /\ UNCHANGED <<ld, stepVars, rt, adv, ro>>

Reset ==
    \E leads \in LeadLists(pb.kind) :
        LET r == PlugboardReset(pb, leads)
        IN /\ pb' = r.pb
           /\ pbLast' = Call("reset", NoLead, "", r.exc, r.warned, "", pb)
           /\ UNCHANGED <<ld, stepVars, rt, adv, ro>>

Encode ==
    \E c \in CallSymbols(pb.kind) : \E ret \in PlugboardEncode(pb, c) :
        /\ pb' = pb
        /\ pbLast' = Call("encode", NoLead, c,
                          IF ret = "ValueError" THEN "ValueError" ELSE "none",
                          FALSE, ret, pb)
        /\ UNCHANGED <<ld, stepVars, rt, adv, ro>>

NextPlug == Add \/ Remove \/ Reset \/ Encode

SpecPlug == InitPlug /\ [][NextPlug]_vars

----------------------------------------------------------------------------
(* SpecStep: a rotor stack under encode calls                              *)

\* The rotor lists of the demonstrations of both files.
Rotors_B_I_II_III == <<Named("B"), Named("I"), Named("II"), Named("III")>>
Rotors_C_I_II_III_IV == <<Named("C"), Named("I"), Named("II"), Named("III"), Named("IV")>>
Rotors_A_IV_V_Beta_I == <<Named("A"), Named("IV"), Named("V"), Named("Beta"), Named("I")>>
Rotors_adv4 == <<rflctr, cer3, cer2, cer1>>
Rotors_adv5 == <<rflctr, cer3, cer2, cer1, rtr0>>

Construction(kind, rotors, rings, positions) ==
    [kind |-> kind, rotors |-> rotors, rings |-> rings, positions |-> positions]

\* The machines the specification starts from: the demonstrations'
\* settings, the default settings, and start positions with the two
\* rightmost rotors on their notches.
StepConstructions ==
    {Construction("classic", Rotors_B_I_II_III, None, p) :
        p \in {None, Some(<<"A", "E", "V">>), Some(<<"A", "D", "U">>)}}
    \cup
    {Construction("classic", Rotors_C_I_II_III_IV, Some(<<7, 11, 15, 19>>), Some(p)) :
        p \in {<<"Q", "E", "V", "Z">>, <<"Q", "E", "V", "J">>, <<"Q", "E", "U", "J">>}}
    \cup
    {Construction("classic", Rotors_A_IV_V_Beta_I, Some(<<18, 24, 3, 5>>),
                  Some(<<"E", "Z", "G", "P">>))}
    \cup
    {Construction("advanced", Rotors_adv4, Some(<<3, 31, 23>>), Some(p)) :
        p \in {<<"4", "D", "T">>, <<"A", "J", "4">>, <<"A", "I", "4">>}}
    \cup
    {Construction("advanced", Rotors_adv5, Some(<<3, 31, 23, 5>>), Some(p)) :
        p \in {<<"4", "D", "T", "G">>, <<"4", "D", "4", "B">>, <<"4", "D", "3", "B">>}}

\* How many calls are made on one machine.
MaxCalls == 30

\* The symbols encode is called with.
StepSymbols(kind) == IF kind = "classic" THEN {"A", "Z"} ELSE {"A", "9"}

\* rotor.position and rotor.ring of every rotor.
Positions(m) == ListOf(Len(m.rotors), LAMBDA i : m.rotors[i].position)
Rings(m) == ListOf(Len(m.rotors), LAMBDA i : m.rotors[i].ring)

\* A call with its outcome, the positions and rings it found, and the call
\* before it with the positions that one found.
CeCall(op, char, out, exc, m, prev_op, earlier) ==
    [op |-> op, char |-> char, out |-> out, exc |-> exc,
     positions |-> Positions(m), rings |-> Rings(m),
     prev_op |-> prev_op, earlier |-> earlier]

InitStep ==
    /\ PlugIdle
    /\ RtIdle
    /\ AdvIdle
    /\ RoIdle
    /\ \E c \in StepConstructions :
          LET r == CE_init(c.kind, c.rotors, c.rings, c.positions)
          IN /\ r.exc = "none"
             /\ ce = r.ce
             /\ ceLast = CeCall("init", "", "", "none", r.ce, "none", Positions(r.ce))
             /\ ceCalls = 0

MachineEncode ==
    \E char \in StepSymbols(ce.kind) :
        LET r == CE_encode(ce, char)
        IN /\ ceCalls < MaxCalls
           /\ ceCalls' = ceCalls + 1
           /\ ce' = r.ce
           /\ ceLast' = CeCall("encode", char, r.out, r.exc, ce, ceLast.op, ceLast.positions)
           /\ UNCHANGED <<plugVars, rt, adv, ro>>

NextStep == MachineEncode

SpecStep == InitStep /\ [][NextStep]_vars

----------------------------------------------------------------------------
(* Properties of the plugboard (SpecPlug)                                  *)

\* The symbols of a board's alphabet.
BoardSymbols(kind) == IF kind = "classic" THEN LetterSet ELSE LineupSet

\* The symbols that belong to some connected lead.
Connected(b) == UNION b.connections

\* C6: in every state reached by add, remove and reset calls, no symbol
\* belongs to more than one connected lead, and the number of connected
\* leads is at most the limit (10 classic, 18 extended).
C6_DisjointLeadsWithinLimit ==
    /\ \A p \in pb.connections : \A q \in pb.connections :
          p # q => p \cap q = {}
    /\ pb.kind = "classic" => Cardinality(pb.connections) <= 10
    /\ pb.kind = "advanced" => Cardinality(pb.connections) <= 18

\* C6 witness: an add was called on a full classic board and answered
\* with the capacity warning.
C6_Witness ==
    /\ pbLast.op = "add"
    /\ pbLast.warned
    /\ pb.kind = "classic"
    /\ Cardinality(pb.connections) = 10

\* C7: for every connected lead {A, B}, encode(A) is B and encode(B) is A,
\* whatever the other leads and the iteration order of the connection set.
C7_ConnectedLeadSwaps ==
    \A pl \in pb.connections : \A a \in pl : \A b \in pl :
        a # b => PlugboardEncode(pb, a) = {b}

\* C7 witness: encode("K") answered "U" on a board of several leads.
C7_Witness ==
    /\ pbLast.op = "encode"
    /\ pbLast.sym = "K"
    /\ pbLast.ret = "U"
    /\ {"K", "U"} \in pb.connections
    /\ Cardinality(pb.connections) >= 4

\* C8 (as claimed): in every reachable state, the empty board included,
\* encode(x) returns x for every symbol x that is in no connected lead.
C8_UnconnectedIsIdentity ==
    \A x \in BoardSymbols(pb.kind) :
        x \notin Connected(pb) => PlugboardEncode(pb, x) = {x}

\* C9 (as claimed): add of a lead whose two symbols are in no connected
\* lead, on a board that holds as many leads as its limit, raises no error
\* and leaves the connection set unchanged.
C9_AddAtLimitIsNoOp ==
    ( /\ pbLast.op = "add"
      /\ Cardinality(pbLast.pre.connections) = connection_limit(pbLast.pre.kind)
      /\ pbLast.lead \cap Connected(pbLast.pre) = {} )
    => ( /\ pbLast.exc = "none"
         /\ pb.connections = pbLast.pre.connections )

\* C10 (as claimed): add of a lead that is already connected raises no
\* error and leaves the connection set unchanged.
C10_AddConnectedIsNoOp ==
    ( /\ pbLast.op = "add"
      /\ pbLast.lead \in pbLast.pre.connections )
    => ( /\ pbLast.exc = "none"
         /\ pb.connections = pbLast.pre.connections )

\* C11: add of a lead that shares a symbol with a different connected lead
\* raises an error and leaves the connections and the occupied symbols as
\* they were.
C11_AddOccupiedFails ==
    ( /\ pbLast.op = "add"
      /\ \E q \in pbLast.pre.connections :
            q # pbLast.lead /\ q \cap pbLast.lead # {} )
    => ( /\ pbLast.exc # "none"
         /\ pb.connections = pbLast.pre.connections
         /\ pb.occupied_letters = pbLast.pre.occupied_letters )

\* C11 witness: add was called with a lead whose last symbol alone belongs
\* to a different connected lead.
C11_Witness ==
    /\ pbLast.op = "add"
    /\ first_letter(pbLast.lead) \notin Connected(pbLast.pre)
    /\ last_letter(pbLast.lead) \in Connected(pbLast.pre)
    /\ pbLast.exc # "none"

\* C12: remove of a lead that is not connected raises an error and leaves
\* the board as it was; remove of a connected lead disconnects that lead
\* and no other.
C12_RemoveExactlyThatLead ==
    pbLast.op = "remove" =>
        IF pbLast.lead \in pbLast.pre.connections
        THEN /\ pbLast.exc = "none"
             /\ pb.connections = pbLast.pre.connections \ {pbLast.lead}
        ELSE /\ pbLast.exc # "none"
             /\ pb = pbLast.pre

\* C12 witness: remove of an absent lead was refused on a board that holds
\* other leads.
C12_Witness ==
    /\ pbLast.op = "remove"
    /\ pbLast.lead \notin pbLast.pre.connections
    /\ pbLast.pre.connections # {}
    /\ pbLast.exc = "ValueError"

\* The leads of a lead list, and whether the list is one reset accepts by
\* its contract: pairwise symbol-disjoint leads, no more than the limit.
LeadsOf(leads) == {PlugLead(leads[i]) : i \in 1..Len(leads)}
DisjointWithinLimit(kind, leads) ==
    /\ Len(leads) <= connection_limit(kind)
    /\ \A i \in 1..Len(leads) : \A j \in 1..Len(leads) :
          i # j => PlugLead(leads[i]) \cap PlugLead(leads[j]) = {}

\* C13 (as claimed): from every reachable board, reset(L) with L a list of
\* pairwise symbol-disjoint leads no longer than the limit leaves exactly
\* the leads of L connected, and reset() leaves no lead connected.
C13_ResetConnectsExactlyL ==
    /\ \A leads \in LeadLists(pb.kind) :
          DisjointWithinLimit(pb.kind, leads)
          => PlugboardReset(pb, leads).pb.connections = LeadsOf(leads)
    /\ PlugboardReset(pb, <<>>).pb.connections = {}

\* C33: in every state reached by add, remove and reset, the occupied
\* symbols of the plugboard are exactly the symbols of its connected leads.
C33_OccupiedIsUnionOfLeads ==
    pb # NoBoard => pb.occupied_letters = UNION pb.connections

----------------------------------------------------------------------------
(* Properties of the stepping (SpecStep)                                   *)

\* The alphabet a rotor's position moves in, and the symbol that follows p
\* in it, cyclically.
Alphabet(r) == IF r.wide THEN lineup ELSE Letters
Succ(r, p) == Alphabet(r)[((ListIndex(Alphabet(r), p) + 1) % Len(Alphabet(r))) + 1]

\* Whether rotor k stood on its notch when the last call began, and whether
\* that call advanced it by exactly one position or left it in place.
WasOnNotch(k) == ceLast.positions[k] = ce.rotors[k].notch
AdvancedOnce(k) == ce.rotors[k].position = Succ(ce.rotors[k], ceLast.positions[k])
Stayed(k) == ce.rotors[k].position = ceLast.positions[k]

\* C3: with the rightmost and the second-rightmost rotor both on their
\* notches, one encoded symbol advances each of the three rightmost rotors
\* by exactly one position.
C3_BothNotchesStepAllThree ==
    LET n == Len(ce.rotors)
    IN (ceLast.op = "encode" /\ WasOnNotch(n) /\ WasOnNotch(n - 1))
       => (AdvancedOnce(n) /\ AdvancedOnce(n - 1) /\ AdvancedOnce(n - 2))

\* C3 witness: an encode call found both notches engaged.
C3_Witness ==
    /\ ceLast.op = "encode"
    /\ WasOnNotch(Len(ce.rotors))
    /\ WasOnNotch(Len(ce.rotors) - 1)

\* C4: every encode steps once and then substitutes: with rot1 and rot2
\* read before any rotor moves, the rightmost rotor advances by one, the
\* second-rightmost by one iff rot1 or rot2, the third-rightmost by one iff
\* rot2, every rotor to their left (the reflector, and rotor 1 of a 5-rotor
\* machine) stays, and the symbol returned is the substitution on the
\* stepped rotors.
C4_StepOnceThenSubstitute ==
    LET n == Len(ce.rotors)
        rot1 == WasOnNotch(n)
        rot2 == WasOnNotch(n - 1)
    IN ceLast.op = "encode" =>
        /\ AdvancedOnce(n)
        /\ IF rot1 \/ rot2 THEN AdvancedOnce(n - 1) ELSE Stayed(n - 1)
        /\ IF rot2 THEN AdvancedOnce(n - 2) ELSE Stayed(n - 2)
        /\ \A k \in 1..(n - 3) : Stayed(k)
        /\ ceLast.out = Substitute(ce.rotors, ceLast.char)

\* C4 witness: an encode call on a 5-rotor machine found the middle rotor
\* on its notch and the rightmost rotor off its notch.
C4_Witness ==
    /\ ceLast.op = "encode"
    /\ Len(ce.rotors) = 5
    /\ WasOnNotch(4)
    /\ ~WasOnNotch(5)

\* Whether the call before the last one moved the middle rotor onto its
\* notch.
MiddleCameOntoNotch ==
    LET n == Len(ce.rotors)
    IN /\ ceLast.op = "encode"
       /\ ceLast.prev_op = "encode"
       /\ ceLast.earlier[n - 1] # ceLast.positions[n - 1]
       /\ WasOnNotch(n - 1)

\* C5: when a stepping transition moves the middle rotor onto its notch,
\* the next stepping transition advances it again and advances the
\* third-rightmost rotor.
C5_MiddleStepsTwiceInARow ==
    LET n == Len(ce.rotors)
    IN MiddleCameOntoNotch => (AdvancedOnce(n - 1) /\ AdvancedOnce(n - 2))

\* C5 witness: two encode calls in a row on a 36-symbol machine, the first
\* of which moved the middle rotor onto its notch.
C5_Witness == MiddleCameOntoNotch /\ ce.kind = "advanced"

----------------------------------------------------------------------------
(* Enigma / AdvancedEnigma: the rotor stack behind an optional plugboard   *)

\* No plugboard argument was given: self.pb = None.
NoPlugboard == [given |-> FALSE, val |-> NoBoard]

\* The attributes swapS, swapR, swapP before random_gen has set them.
Unset == -1

\* The facade object: initials are the constructor's rotors, rings and
\* positions, advanced is the instruction list of AdvancedEnigma.
EnigmaObject(kind, rotors, rings, positions, m, plugboard, advanced) ==
    [kind |-> kind,
     initials |-> [rotors |-> rotors, rings |-> rings, positions |-> positions],
     ce |-> m, pb |-> plugboard, advanced |-> advanced,
     swapS |-> Unset, swapR |-> Unset, swapP |-> Unset]

NoEnigma == EnigmaObject("none", <<>>, None, None, NoMachine, NoPlugboard, <<>>)

\* The result of a facade call: the object after it, what it returned and
\* the exception it raised ("none" when it returned).
Answer(e, out, exc) == [e |-> e, out |-> out, exc |-> exc]

\* Enigma.__init__ / AdvancedEnigma.__init__: the machine is built first,
\* then the plugboard when one is given.
Enigma_init(kind, rotors, rings, positions, plugboard, advanced) ==
    LET m == CE_init(kind, rotors, rings, positions)
    IN IF m.exc # "none" THEN Answer(NoEnigma, <<>>, m.exc)
       ELSE IF ~plugboard.given
       THEN Answer(EnigmaObject(kind, rotors, rings, positions, m.ce,
                                NoPlugboard, advanced), <<>>, "none")
       ELSE LET b == PlugboardInit(kind, plugboard.val)
            IN IF b.exc # "none" THEN Answer(NoEnigma, <<>>, b.exc)
               ELSE Answer(EnigmaObject(kind, rotors, rings, positions, m.ce,
                                        Some(b.pb), advanced), <<>>, "none")

\* self.pb.encode(char) on a board of a facade. The leads of a board are
\* pairwise disjoint, so every iteration order of the connection set gives
\* the same answer.
PlugboardEncodeOne(b, char) == CHOOSE ret \in PlugboardEncode(b, char) : TRUE

\* Enigma.encode(char) / AdvancedEnigma.encode(char)
Enigma_encode(e, char) ==
    IF ~e.pb.given
    THEN Bind(CE_encode(e.ce, char), LAMBDA r :
            Answer([e EXCEPT !.ce = r.ce], r.out, r.exc))
    ELSE Bind(PlugboardEncodeOne(e.pb.val, char), LAMBDA c1 :
            IF c1 = Raises THEN Answer(e, Raises, "ValueError")
            ELSE Bind(CE_encode(e.ce, c1), LAMBDA r :
                    IF r.exc # "none" THEN Answer([e EXCEPT !.ce = r.ce], Raises, r.exc)
                    ELSE Bind(PlugboardEncodeOne(e.pb.val, r.out), LAMBDA c2 :
                            Answer([e EXCEPT !.ce = r.ce], c2,
                                   IF c2 = Raises THEN "ValueError" ELSE "none"))))

\* Enigma.encode_string(string), from index i on; out is the text encoded
\* so far. An exception ends the loop.
RECURSIVE Enigma_encode_from(_, _, _, _)
Enigma_encode_from(e, string, i, out) ==
    IF i > Len(string) THEN Answer(e, out, "none")
    ELSE Bind(Enigma_encode(e, string[i]), LAMBDA r :
            IF r.exc # "none"
            THEN Answer(r.e, out, r.exc)
            ELSE Enigma_encode_from(r.e, string, i + 1, Append(out, r.out)))

Enigma_encode_string(e, string) == Enigma_encode_from(e, string, 1, <<>>)

\* Enigma.ring_settings(rings) / AdvancedEnigma.ring_settings(rings)
Enigma_ring_settings(e, rings) ==
    Bind(CE_ring_settings(e.ce, rings), LAMBDA r :
        Answer([e EXCEPT !.ce = r.ce], <<>>, r.exc))

\* Enigma.position_settings(positions) /
\* AdvancedEnigma.position_settings(positions)
Enigma_position_settings(e, positions) ==
    Bind(CE_position_settings(e.ce, positions), LAMBDA r :
        Answer([e EXCEPT !.ce = r.ce], <<>>, r.exc))

\* A plausible slip: only the rotor positions are set back.
reset_positions_only(e) ==
    IF e.initials.positions.given
    THEN Enigma_position_settings(e, e.initials.positions.val)
    ELSE Answer(e, <<>>, "none")

\* AdvancedEnigma.reset_to_original_position()
reset_to_original_position(e) ==
    Bind(CE_init(e.kind, e.initials.rotors, e.initials.rings, e.initials.positions),
         LAMBDA fresh :
        IF fresh.exc # "none" THEN Answer(e, <<>>, fresh.exc)
        ELSE Answer([e EXCEPT !.ce = fresh.ce], <<>>, "none"))

----------------------------------------------------------------------------
(* SpecRT: a text encoded by one facade and encoded again by a second      *)
(* facade constructed from the same arguments                              *)

\* The longest text encoded.
MaxLen == 3

PlugLeads_8U_RF_2M == <<(<<"8","U">>), <<"R","F">>, <<"2","M">>>>

Configuration(kind, rotors, rings, positions, plugboard) ==
    [kind |-> kind, rotors |-> rotors, rings |-> rings, positions |-> positions,
     plugboard |-> plugboard]

\* The constructor arguments: the machines of the demonstrations, each
\* without a plugboard, with an empty one and with a wired one.
RtConstructions ==
    {Configuration("classic", Rotors_B_I_II_III, None, None, p) :
        p \in {None, Some(<<>>), Some(L4)}}
    \cup
    {Configuration("classic", Rotors_C_I_II_III_IV, Some(<<7, 11, 15, 19>>),
                   Some(<<"Q", "E", "V", "Z">>), p) : p \in {None, Some(L10)}}
    \cup
    {Configuration("advanced", Rotors_adv4, Some(<<3, 31, 23>>),
                   Some(<<"4", "D", "T">>), p) :
        p \in {None, Some(<<>>), Some(PlugLeads_8U_RF_2M)}}
    \cup
    {Configuration("advanced", Rotors_adv5, Some(<<3, 31, 23, 5>>),
                   Some(<<"4", "D", "T", "G">>), p) :
        p \in {None, Some(PlugLeads_8U_RF_2M)}}

\* The symbols of the texts: one no lead holds and two that leads hold.
RtSymbols(kind) == IF kind = "classic" THEN {"A", "S", "Z"} ELSE {"A", "8", "U"}

\* The texts of at most n symbols over S.
Texts(S, n) == UNION {[1..k -> S] : k \in 0..n}

Run(phase, c, sender, receiver, plain, cipher, decoded, exc) ==
    [phase |-> phase, config |-> c, sender |-> sender, receiver |-> receiver,
     plain |-> plain, cipher |-> cipher, decoded |-> decoded, exc |-> exc]

InitRT ==
    /\ PlugIdle
    /\ StepIdle
    /\ AdvIdle
    /\ RoIdle
    /\ \E c \in RtConstructions :
          LET built == Enigma_init(c.kind, c.rotors, c.rings, c.positions,
                                   c.plugboard, <<>>)
          IN /\ built.exc = "none"
             /\ rt = Run("built", c, built.e, built.e, <<>>, <<>>, <<>>, "none")

\* The sender's encode_string(P).
Send ==
    /\ rt.phase = "built"
    /\ \E P \in Texts(RtSymbols(rt.config.kind), MaxLen) :
          rt' = Bind(Enigma_encode_string(rt.sender, P), LAMBDA r :
                    Run("sent", rt.config, r.e, rt.receiver, P, r.out, <<>>, r.exc))
    /\ UNCHANGED <<plugVars, stepVars, adv, ro>>

\* The receiver's encode_string of what the sender returned.
Receive ==
    /\ rt.phase = "sent"
    /\ rt.exc = "none"
    /\ rt' = Bind(Enigma_encode_string(rt.receiver, rt.cipher), LAMBDA r :
                 Run("received", rt.config, rt.sender, r.e, rt.plain, rt.cipher,
                     r.out, r.exc))
    /\ UNCHANGED <<plugVars, stepVars, adv, ro>>

NextRT == Send \/ Receive

SpecRT == InitRT /\ [][NextRT]_vars

\* C1: for every valid configuration and every text P, encode_string of P
\* on one machine returns a text, and encode_string of that text on a
\* machine constructed from the same configuration returns P.
C1_EncodeTwiceReturnsPlaintext ==
    /\ rt.phase \in {"sent", "received"} => rt.exc = "none"
    /\ rt.phase = "received" => rt.decoded = rt.plain

----------------------------------------------------------------------------
(* AdvancedEnigma: the session-key prefix protocol                         *)

\* swap_perms = list(it.permutations(range(3), 3))
swap_perms ==
    <<(<<0, 1, 2>>), <<0, 2, 1>>, <<1, 0, 2>>, <<1, 2, 0>>, <<2, 0, 1>>, <<2, 1, 0>>>>

\* len(ring_perms) = len(position_perms) = 36 ** 3
TriplesLen == 36 * 36 * 36

\* ring_perms[i], of list(it.product(range(1, 37), repeat=3))
ring_perms(i) == <<(i \div 1296) + 1, ((i \div 36) % 36) + 1, (i % 36) + 1>>

\* position_perms[i], of list(it.product(AdvancedRotor.lineup, repeat=3))
position_perms(i) ==
    <<lineup[(i \div 1296) + 1], lineup[((i \div 36) % 36) + 1], lineup[(i % 36) + 1]>>

max_rand == 5

\* How many entries the table of an instruction has.
TableLen(instruction) == IF instruction = "S" THEN Len(swap_perms) ELSE TriplesLen

\* str(n) for n >= 0: the decimal digits of n.
RECURSIVE Str(_)
Str(n) == IF n < 10 THEN <<Digits[n + 1]>> ELSE Append(Str(n \div 10), Digits[(n % 10) + 1])

\* [int(i) for i in re.findall(r'\d+', s)], from index i on; run is the
\* value of the digit run being read (Unset outside a run).
RECURSIVE Findall(_, _, _, _)
Findall(s, i, run, found) ==
    IF i > Len(s) THEN (IF run = Unset THEN found ELSE Append(found, run))
    ELSE IF IsNumeric(s[i])
    THEN Findall(s, i + 1, (IF run = Unset THEN 0 ELSE run) * 10 + ListIndex(Digits, s[i]), found)
    ELSE Findall(s, i + 1, Unset, IF run = Unset THEN found ELSE Append(found, run))

\* re.search(r'([A-Z])\1', s).span()[1]: the end of the first pair of
\* adjacent equal upper-case letters; Unset when search returns None.
DoubledAt(s, i) == IsUpperAlpha(s[i]) /\ s[i + 1] = s[i]
SearchDoubledEnd(s) ==
    IF \E i \in 1..(Len(s) - 1) : DoubledAt(s, i)
    THEN (CHOOSE i \in 1..(Len(s) - 1) :
              DoubledAt(s, i) /\ \A k \in 1..(i - 1) : ~DoubledAt(s, k)) + 1
    ELSE Unset

\* string[i:j]
Slice(string, i, j) == SubSeq(string, i + 1, IF j > Len(string) THEN Len(string) ELSE j)

\* The outcome of the random draws of one auxiliary_string call: index[i]
\* and pad[i] are the randint and the sample drawn for instruction i,
\* repeater is the choice of the marker letter.
Draws(index, pad, repeater) == [index |-> index, pad |-> pad, repeater |-> repeater]

\* The outcomes randint, sample and choice can give for an instruction list.
PossibleDraws(advanced, d) ==
    /\ Len(d.index) = Len(advanced)
    /\ Len(d.pad) = Len(advanced)
    /\ \A i \in 1..Len(advanced) :
          /\ d.index[i] \in 0..(TableLen(advanced[i]) - 1)
          /\ Len(d.pad[i]) \in 1..max_rand
          /\ AllIn(d.pad[i], LetterSet)
          /\ Distinct(d.pad[i])
    /\ d.repeater \in LetterSet

\* AdvancedEnigma.random_gen(instruction), drawing index.
random_gen(e, instruction, index) ==
    IF instruction = "S" THEN Answer([e EXCEPT !.swapS = index], Str(index), "none")
    ELSE IF instruction = "R" THEN Answer([e EXCEPT !.swapR = index], Str(index), "none")
    ELSE IF instruction = "P" THEN Answer([e EXCEPT !.swapP = index], Str(index), "none")
    ELSE Answer(e, <<>>, "ValueError")

\* AdvancedEnigma.auxiliary_string, from instruction i on.
RECURSIVE AuxFrom(_, _, _, _)
AuxFrom(e, d, i, aux_string) ==
    IF i > Len(e.advanced)
    THEN Answer(e, aux_string \o <<d.repeater, d.repeater>>, "none")
    ELSE Bind(random_gen(e, e.advanced[i], d.index[i]), LAMBDA g :
            IF g.exc # "none" THEN Answer(g.e, aux_string, g.exc)
            ELSE AuxFrom(g.e, d, i + 1, aux_string \o g.out \o d.pad[i]))

auxiliary_string(e, d) == AuxFrom(e, d, 1, <<>>)

\* The rotors, rings and positions a machine is rebuilt from.
Setup(rotors, rings, positions) ==
    [rotors |-> rotors, rings |-> rings, positions |-> positions]

\* get_rotor_types(), get_rings()[1:] and get_positions()[1:]
CurrentSetup(m) ==
    Setup(ListOf(Len(m.rotors), LAMBDA i : m.rotors[i].rotor_input),
          Tail(Rings(m)), Tail(Positions(m)))

\* current_rotors[:-3] + [just3[i] for i in swap_perms[setting]]
SwappedRotors(current_rotors, setting) ==
    LET n == Len(current_rotors)
    IN SubSeq(current_rotors, 1, n - 3)
       \o ListOf(3, LAMBDA k : current_rotors[n - 3 + swap_perms[setting + 1][k] + 1])

\* The ring or position triple, behind the current first entry when the
\* machine has five rotors.
SwappedTriple(current, triple, n) ==
    IF n = 5 THEN <<current[1]>> \o triple ELSE triple

\* The session configuration for the indices s, r, p on machine m.
SessionSetup(m, s, r, p) ==
    LET c == CurrentSetup(m)
    IN Setup(SwappedRotors(c.rotors, s),
             SwappedTriple(c.rings, ring_perms(r), Len(c.rotors)),
             SwappedTriple(c.positions, position_perms(p), Len(c.rotors)))

\* [string[i:j] for i, j in zip([0] + unpacked, unpacked)], unpacked with
\* the length of the string appended.
Partitioned(string, unpacked) ==
    LET ends == Append(unpacked, Len(string))
        starts == <<0>> \o unpacked
    IN ListOf(Len(ends), LAMBDA k : Slice(string, starts[k], ends[k]))

\* The loop over the segments, from segment i on: the odd segments on a
\* machine rebuilt from the session setup, the even ones on a machine
\* rebuilt from the current setup, each carrying its positions forward.
RECURSIVE Alternate(_, _, _, _, _, _)
Alternate(e, partitioned, i, swapped, current, encode) ==
    IF i > Len(partitioned) THEN Answer(e, encode, "none")
    ELSE Bind(IF i % 2 = 1 THEN swapped ELSE current, LAMBDA setup :
         Bind(CE_init("advanced", setup.rotors, Some(setup.rings), Some(setup.positions)),
              LAMBDA m :
            IF m.exc # "none" THEN Answer(e, encode, m.exc)
            ELSE Bind(Enigma_encode_string([e EXCEPT !.ce = m.ce], partitioned[i]), LAMBDA r :
                    IF r.exc # "none" THEN Answer(r.e, encode, r.exc)
                    ELSE Alternate(r.e, partitioned, i + 1,
                                   IF i % 2 = 1
                                   THEN [swapped EXCEPT !.positions = Tail(Positions(r.e.ce))]
                                   ELSE swapped,
                                   IF i % 2 = 1
                                   THEN current
                                   ELSE [current EXCEPT !.positions = Tail(Positions(r.e.ce))],
                                   encode \o r.out))))

\* A plausible slip: the test for repeated boundaries left out.
BadBoundariesRepeatsAllowed(unpacked) ==
    \/ Len(unpacked) = 0
    \/ \E i \in 1..(Len(unpacked) - 1) : unpacked[i] > unpacked[i + 1]
    \/ \E i \in 1..Len(unpacked) : unpacked[i] <= 0

\* unpacked != sorted(unpacked) or len(unpacked) != len(set(unpacked)) or
\* min(unpacked) <= 0; min and max of an empty list raise ValueError too.
BadBoundaries(unpacked) ==
    \/ Len(unpacked) = 0
    \/ \E i \in 1..(Len(unpacked) - 1) : unpacked[i] >= unpacked[i + 1]
    \/ \E i \in 1..Len(unpacked) : unpacked[i] <= 0

\* max(unpacked) > len(string) - 1
BeyondEnd(unpacked, string) ==
    \E i \in 1..Len(unpacked) : unpacked[i] > Len(string) - 1

\* The result of a protocol call: the object after it, what it returned,
\* the exception it raised and the caller's boundary list after it.
Protocol(e, out, exc, unpacked) ==
    [e |-> e, out |-> out, exc |-> exc, unpacked |-> unpacked]

\* AdvancedEnigma.encode_advanced_string(string, unpacked), drawing d.
encode_advanced_string(e, string, unpacked, d) ==
    IF BadBoundaries(unpacked) \/ BeyondEnd(unpacked, string)
    THEN Protocol(e, <<>>, "ValueError", unpacked)
    ELSE Bind(auxiliary_string(e, d), LAMBDA pre :
            IF pre.exc # "none" THEN Protocol(pre.e, <<>>, pre.exc, unpacked)
            ELSE Bind(Enigma_encode_string(pre.e, pre.out), LAMBDA prencode :
                    IF prencode.exc # "none"
                    THEN Protocol(prencode.e, <<>>, prencode.exc, unpacked)
                    ELSE IF Unset \in {pre.e.swapS, pre.e.swapR, pre.e.swapP}
                    THEN Protocol(prencode.e, <<>>, "AttributeError", unpacked)
                    ELSE Bind(Alternate(prencode.e, Partitioned(string, unpacked), 1,
                                        SessionSetup(prencode.e.ce, pre.e.swapS,
                                                     pre.e.swapR, pre.e.swapP),
                                        CurrentSetup(prencode.e.ce), <<>>),
                              LAMBDA a :
                            Protocol(a.e,
                                     IF a.exc = "none" THEN prencode.out \o a.out ELSE <<>>,
                                     a.exc, Append(unpacked, Len(string))))))

\* The setting the loop over zip(settings, self.advanced) leaves for param:
\* the last one paired with it, Unset when none is.
SettingFor(settings, advanced, param) ==
    LET n == IF Len(settings) < Len(advanced) THEN Len(settings) ELSE Len(advanced)
        at == {k \in 1..n : advanced[k] = param}
    IN IF at = {} THEN Unset
       ELSE settings[CHOOSE k \in at : \A j \in at : j <= k]

\* Whether the loop indexes a table beyond its end.
SettingBeyondTable(settings, advanced) ==
    \E k \in 1..(IF Len(settings) < Len(advanced) THEN Len(settings) ELSE Len(advanced)) :
        advanced[k] \in {"S", "R", "P"} /\ settings[k] >= TableLen(advanced[k])

\* AdvancedEnigma.decode_advanced_string(total_string, unpacked), from
\* the assignment of settings on: jumbled is the object after the first
\* encode_string call, instruction and message the two slices.
DecodeMessage(jumbled, instruction, message, unpacked) ==
    Bind(Findall(instruction, 1, Unset, <<>>), LAMBDA settings :
    Bind(CE_init("advanced", jumbled.initials.rotors, jumbled.initials.rings,
                 jumbled.initials.positions), LAMBDA fresh :
        IF fresh.exc # "none" THEN Protocol(jumbled, <<>>, fresh.exc, unpacked)
        ELSE Bind(Enigma_encode_string([jumbled EXCEPT !.ce = fresh.ce], instruction),
                  LAMBDA again :
                IF again.exc # "none" THEN Protocol(again.e, <<>>, again.exc, unpacked)
                ELSE IF SettingBeyondTable(settings, jumbled.advanced)
                THEN Protocol(again.e, <<>>, "IndexError", unpacked)
                ELSE IF Unset \in {SettingFor(settings, jumbled.advanced, "S"),
                                   SettingFor(settings, jumbled.advanced, "R"),
                                   SettingFor(settings, jumbled.advanced, "P")}
                THEN Protocol(again.e, <<>>, "UnboundLocalError",
                              Append(unpacked, Len(message)))
                ELSE Bind(Alternate(again.e, Partitioned(message, unpacked), 1,
                                    SessionSetup(again.e.ce,
                                                 SettingFor(settings, jumbled.advanced, "S"),
                                                 SettingFor(settings, jumbled.advanced, "R"),
                                                 SettingFor(settings, jumbled.advanced, "P")),
                                    CurrentSetup(again.e.ce), <<>>),
                          LAMBDA a :
                        Protocol(a.e, IF a.exc = "none" THEN a.out ELSE <<>>,
                                 a.exc, Append(unpacked, Len(message)))))))

\* AdvancedEnigma.decode_advanced_string(total_string, unpacked)
decode_advanced_string(e, total_string, unpacked) ==
    IF BadBoundaries(unpacked) THEN Protocol(e, <<>>, "ValueError", unpacked)
    ELSE Bind(Enigma_encode_string(e, total_string), LAMBDA jumbled :
            IF jumbled.exc # "none" THEN Protocol(jumbled.e, <<>>, jumbled.exc, unpacked)
            ELSE Bind(SearchDoubledEnd(jumbled.out), LAMBDA end_instruction :
                    IF end_instruction = Unset
                    THEN Protocol(jumbled.e, <<>>, "AttributeError", unpacked)
                    ELSE IF BeyondEnd(unpacked, Slice(total_string, end_instruction,
                                                      Len(total_string)))
                    THEN Protocol(jumbled.e, <<>>, "ValueError", unpacked)
                    ELSE DecodeMessage(jumbled.e, Slice(jumbled.out, 0, end_instruction),
                                       Slice(total_string, end_instruction,
                                             Len(total_string)),
                                       unpacked)))

----------------------------------------------------------------------------
(* SpecAdv: a text sent under the session-key protocol by one              *)
(* AdvancedEnigma and decoded by a second one constructed from the same    *)
(* arguments                                                               *)

\* The longest plaintext sent.
MaxText == 3

AdvConfiguration(rotors, rings, positions, plugboard, advanced) ==
    [rotors |-> rotors, rings |-> rings, positions |-> positions,
     plugboard |-> plugboard, advanced |-> advanced]

\* The constructor arguments of the demonstration: four rotors with the
\* default instruction order, five rotors with the order given.
AdvConstructions ==
    {AdvConfiguration(Rotors_adv4, Some(<<3, 31, 23>>), Some(<<"4", "D", "T">>),
                      Some(PlugLeads_8U_RF_2M), <<"S", "R", "P">>),
     AdvConfiguration(Rotors_adv5, Some(<<3, 31, 23, 5>>), Some(<<"4", "D", "T", "A">>),
                      Some(PlugLeads_8U_RF_2M), <<"P", "R", "S">>)}

\* The plaintexts: a letter and a digit in turn, at least two symbols, so
\* that a boundary list exists.
AdvTexts ==
    {P \in Texts({"H", "9"}, MaxText) :
        Len(P) >= 2 /\ \A i \in 1..(Len(P) - 1) : P[i] # P[i + 1]}

\* The valid boundary lists for a text of n symbols.
BoundaryLists(n) ==
    {B \in UNION {[1..k -> 1..(n - 1)] : k \in 1..(n - 1)} : ~BadBoundaries(B)}

\* The indices, paddings and marker letters the draws are taken from.
DrawnIndices(instruction) ==
    IF instruction = "S" THEN {0, 4}
    ELSE IF instruction = "R" THEN {1295, 46655}
    ELSE {36}
DrawnPads == {<<"K">>, <<"Q", "X">>}
DrawnRepeaters == {"M", "X"}

DrawnOutcomes(advanced) ==
    {Draws(index, pad, repeater) :
        index \in {f \in [1..Len(advanced) -> {0, 4, 36, 1295, 46655}] :
                      \A i \in 1..Len(advanced) : f[i] \in DrawnIndices(advanced[i])},
        pad \in [1..Len(advanced) -> DrawnPads],
        repeater \in DrawnRepeaters}

Session(phase, c, sender, receiver, plain, boundaries, d, total, decoded, exc, unpacked) ==
    [phase |-> phase, config |-> c, sender |-> sender, receiver |-> receiver,
     plain |-> plain, boundaries |-> boundaries, draws |-> d, total |-> total,
     decoded |-> decoded, exc |-> exc, unpacked |-> unpacked]

NoDraws == Draws(<<>>, <<>>, "")

InitAdv ==
    /\ PlugIdle
    /\ StepIdle
    /\ RtIdle
    /\ RoIdle
    /\ \E c \in AdvConstructions :
          LET built == Enigma_init("advanced", c.rotors, c.rings, c.positions,
                                   c.plugboard, c.advanced)
          IN /\ built.exc = "none"
             /\ adv = Session("built", c, built.e, built.e, <<>>, <<>>, NoDraws,
                              <<>>, <<>>, "none", <<>>)

\* The sender's encode_advanced_string(P, B) with a list holding B.
EncodeAdvanced ==
    /\ adv.phase = "built"
    /\ \E P \in AdvTexts : \E B \in BoundaryLists(Len(P)) :
       \E d \in DrawnOutcomes(adv.config.advanced) :
          /\ PossibleDraws(adv.config.advanced, d)
          /\ adv' = Bind(encode_advanced_string(adv.sender, P, B, d), LAMBDA r :
                       Session("encoded", adv.config, r.e, adv.receiver, P, B, d,
                               r.out, <<>>, r.exc, r.unpacked))
    /\ UNCHANGED <<plugVars, stepVars, rt, ro>>

\* The receiver's decode_advanced_string of what the sender returned, with
\* a new list holding B.
DecodeAdvanced ==
    /\ adv.phase = "encoded"
    /\ adv.exc = "none"
    /\ adv' = Bind(decode_advanced_string(adv.receiver, adv.total, adv.boundaries),
                  LAMBDA r :
                 Session("decoded", adv.config, adv.sender, r.e, adv.plain,
                         adv.boundaries, adv.draws, adv.total, r.out, r.exc, r.unpacked))
    /\ UNCHANGED <<plugVars, stepVars, rt, ro>>

NextAdv == EncodeAdvanced \/ DecodeAdvanced

SpecAdv == InitAdv /\ [][NextAdv]_vars

\* C2: for every plaintext P, every valid boundary list B and every outcome
\* of the random draws, decode_advanced_string on a machine constructed
\* like the encoder returns P from what encode_advanced_string(P, B)
\* returned.
C2_AdvancedRoundTrip ==
    adv.phase = "decoded" => (adv.exc = "none" /\ adv.decoded = adv.plain)

----------------------------------------------------------------------------
(* SpecRotor: one Rotor / AdvancedRotor under its method calls             *)

\* Custom wirings over an alphabet abc: the alphabet itself (every symbol
\* wired to itself), A and B swapped with the rest wired to itself, and A
\* repeated in the place of B.
SwapABWiring(abc) == [abc EXCEPT ![1] = "B", ![2] = "A"]
RepeatedAWiring(abc) == [abc EXCEPT ![2] = "A"]

\* The rotor_type arguments a rotor is constructed from.
RotorTypes(kind) ==
    IF kind = "classic"
    THEN {Named("I"), Named("Beta"), Named("B"), Named("X"),
          CustomList(NamedWiring("B")), CustomList(Letters),
          CustomList(SwapABWiring(Letters)), CustomList(RepeatedAWiring(Letters)),
          CustomTuple(NamedWiring("I"), "Q"), CustomTuple(NamedWiring("B"), "Q"),
          CustomTuple(RepeatedAWiring(Letters), "Q")}
    ELSE {Named("I"), Named("B"), rflctr, rtr0, rtr1, cer1,
          CustomList(lineup), CustomList(SwapABWiring(lineup)),
          CustomList(RepeatedAWiring(lineup)), CustomList(NamedWiring("B")),
          CustomTuple(rflctr.mapping, "4"),
          CustomTuple(RepeatedAWiring(lineup), "4")}

\* The ring and position arguments, valid and invalid ones.
RotorRings(kind) == IF kind = "classic" THEN {0, 1, 2, 26, 27} ELSE {0, 1, 2, 26, 27, 36, 37}
RotorPositions == {"A", "B", "9"}

\* The symbols the encode methods are called with.
RotorSymbols(kind) == IF kind = "classic" THEN {"A", "B", "J", "Z"} ELSE {"A", "B", "J", "9"}

\* The constructor call, its outcome, and the last method call with what it
\* returned ("ValueError" when it raised).
RotorRun(kind, rotor_type, ring, position, exc, rotor, op, char, out) ==
    [phase |-> "rotor", kind |-> kind, rotor_type |-> rotor_type, ring |-> ring,
     position |-> position, exc |-> exc, rotor |-> rotor,
     op |-> op, char |-> char, out |-> out]

\* ro after a method call that leaves the rotor as it is.
RotorCalled(op, char, out) == [ro EXCEPT !.op = op, !.char = char, !.out = out]

InitRotor ==
    /\ PlugIdle
    /\ StepIdle
    /\ RtIdle
    /\ AdvIdle
    /\ \E kind \in {"classic", "advanced"} : \E t \in RotorTypes(kind) :
       \E ring \in RotorRings(kind) : \E position \in RotorPositions :
          LET r == BuildRotorWith(kind, t, ring, position)
          IN ro = RotorRun(kind, t, ring, position, r.exc, r.rotor, "init", "", "")

AdvancePosition ==
    /\ ro.phase = "rotor"
    /\ ro.exc = "none"
    /\ ro' = [ro EXCEPT !.rotor.position = advance_position(ro.rotor),
                        !.op = "advance_position", !.char = "", !.out = ""]
    /\ UNCHANGED <<plugVars, stepVars, rt, adv>>

EncodeRightToLeft ==
    /\ ro.phase = "rotor"
    /\ ro.exc = "none"
    /\ \E char \in RotorSymbols(ro.kind) :
          ro' = RotorCalled("encode_right_to_left", char,
                            encode_right_to_left(ro.rotor, char))
    /\ UNCHANGED <<plugVars, stepVars, rt, adv>>

EncodeLeftToRight ==
    /\ ro.phase = "rotor"
    /\ ro.exc = "none"
    /\ \E char \in RotorSymbols(ro.kind) :
          ro' = RotorCalled("encode_left_to_right", char,
                            encode_left_to_right(ro.rotor, char))
    /\ UNCHANGED <<plugVars, stepVars, rt, adv>>

EncodeOffsetRtl ==
    /\ ro.phase = "rotor"
    /\ ro.exc = "none"
    /\ \E char \in RotorSymbols(ro.kind) :
          ro' = RotorCalled("encode_offset_rtl", char,
                            encode_offset_rtl(ro.rotor, char))
    /\ UNCHANGED <<plugVars, stepVars, rt, adv>>

EncodeOffsetLtr ==
    /\ ro.phase = "rotor"
    /\ ro.exc = "none"
    /\ \E char \in RotorSymbols(ro.kind) :
          ro' = RotorCalled("encode_offset_ltr", char,
                            encode_offset_ltr(ro.rotor, char))
    /\ UNCHANGED <<plugVars, stepVars, rt, adv>>

ValidReflector ==
    /\ ro.phase = "rotor"
    /\ ro.exc = "none"
    /\ ro' = RotorCalled("valid_reflector", "", valid_reflector(ro.rotor))
    /\ UNCHANGED <<plugVars, stepVars, rt, adv>>

NextRotor ==
    \/ AdvancePosition
    \/ EncodeRightToLeft
    \/ EncodeLeftToRight
    \/ EncodeOffsetRtl
    \/ EncodeOffsetLtr
    \/ ValidReflector

SpecRotor == InitRotor /\ [][NextRotor]_vars

----------------------------------------------------------------------------
(* SpecMachine: Commercial_enigma / Commercial_enigma_advanced from its    *)
(* construction on, under ring_settings and position_settings             *)

\* The most setter calls made on one machine.
MaxSets == 2

\* The rotor lists a machine is constructed from: the demonstrations', lists
\* of three and of six rotors, custom reflectors (a reflector's wiring, every
\* symbol wired to itself, A and B swapped, a repeated symbol, a wiring with
\* a notch), a rotor with a notch in the reflector's place, and a named
\* reflector among the rotors.
MachineRotorLists(kind) ==
    IF kind = "classic"
    THEN {Rotors_B_I_II_III, Rotors_C_I_II_III_IV,
          <<Named("B"), Named("I"), Named("II")>>,
          <<Named("B"), Named("I"), Named("II"), Named("III"), Named("IV"), Named("V")>>,
          <<CustomList(NamedWiring("B")), Named("I"), Named("II"), Named("III")>>,
          <<CustomList(Letters), Named("I"), Named("II"), Named("III")>>,
          <<CustomList(SwapABWiring(Letters)), Named("I"), Named("II"), Named("III")>>,
          <<CustomList(RepeatedAWiring(Letters)), Named("I"), Named("II"), Named("III")>>,
          <<CustomTuple(NamedWiring("B"), "Q"), Named("I"), Named("II"), Named("III")>>,
          <<Named("I"), Named("II"), Named("III"), Named("IV")>>,
          <<Named("B"), Named("I"), Named("C"), Named("III")>>}
    ELSE {Rotors_adv4, Rotors_adv5,
          <<rflctr, cer3, cer2>>,
          <<CustomList(lineup), cer3, cer2, cer1>>,
          <<cer1, cer3, cer2, cer1>>,
          <<rflctr, cer3, Named("B"), cer1>>}

\* Lists of ring settings: of the machine's length and not, with every
\* entry valid and with an invalid entry at the first, a middle and the last
\* index.
RingLists(kind) ==
    {<<2, 3, 4>>, <<5, 26, 1>>, <<0, 3, 4>>, <<6, 0, 4>>, <<6, 7, RingMax(kind) + 1>>,
     <<2, 3>>, <<8, 9, 10, 11>>, <<8, 9, 10, 0>>, <<>>}

\* Lists of rotor positions, likewise.
PositionLists(kind) ==
    {<<"B", "C", "D">>, <<"Z", "A", "Y">>, <<"a", "C", "D">>, <<"E", "?", "D">>,
     <<"E", "F", IF kind = "classic" THEN "9" ELSE "z">>,
     <<"B", "C">>, <<"G", "H", "I", "J">>, <<"G", "H", "I", "?">>, <<>>}

\* The constructor calls.
MachineConstructions ==
    {Construction(kind, rotors, None, None) :
        kind \in {"classic"}, rotors \in MachineRotorLists("classic")}
    \cup
    {Construction(kind, rotors, None, None) :
        kind \in {"advanced"}, rotors \in MachineRotorLists("advanced")}
    \cup
    {Construction("classic", Rotors_B_I_II_III, rings, positions) :
        rings \in {None, Some(<<2, 3, 4>>), Some(<<6, 7, 27>>)},
        positions \in {None, Some(<<"B", "C", "D">>), Some(<<"E", "?", "D">>)}}
    \cup
    {Construction("advanced", Rotors_adv5, rings, positions) :
        rings \in {None, Some(<<8, 9, 10, 36>>), Some(<<8, 9, 10>>)},
        positions \in {None, Some(<<"G", "H", "I", "9">>), Some(<<"G", "H", "I", "?">>)}}

\* The constructor call made, and the argument of the last call after it
\* with the machine that call found.
MachineRun(c, arg, before) ==
    [phase |-> "machine", kind |-> c.kind, rotors |-> c.rotors, rings |-> c.rings,
     positions |-> c.positions, arg |-> arg, before |-> before]

InitMachine ==
    /\ PlugIdle
    /\ StepIdle
    /\ RtIdle
    /\ AdvIdle
    /\ \E c \in MachineConstructions : ro = MachineRun(c, <<>>, NoMachine)

\* Commercial_enigma(rotors, rings, positions)
Construct ==
    /\ ro.phase = "machine"
    /\ ceLast = NoCall
    /\ LET r == CE_init(ro.kind, ro.rotors, ro.rings, ro.positions)
       IN /\ ce' = r.ce
          /\ ceLast' = CeCall("init", "", "", r.exc, r.ce, "none", Positions(r.ce))
    /\ UNCHANGED <<plugVars, ceCalls, rt, adv, ro>>

\* machine.ring_settings(rings)
RingSettings ==
    /\ ro.phase = "machine"
    /\ ceLast # NoCall
    /\ ce # NoMachine
    /\ ceCalls < MaxSets
    /\ \E rings \in RingLists(ce.kind) :
          LET r == CE_ring_settings(ce, rings)
          IN /\ ce' = r.ce
             /\ ceLast' = CeCall("ring_settings", "", "", r.exc, ce, ceLast.op, ceLast.positions)
             /\ ro' = [ro EXCEPT !.arg = rings, !.before = ce]
    /\ ceCalls' = ceCalls + 1
    /\ UNCHANGED <<plugVars, rt, adv>>

\* machine.position_settings(positions)
PositionSettings ==
    /\ ro.phase = "machine"
    /\ ceLast # NoCall
    /\ ce # NoMachine
    /\ ceCalls < MaxSets
    /\ \E positions \in PositionLists(ce.kind) :
          LET r == CE_position_settings(ce, positions)
          IN /\ ce' = r.ce
             /\ ceLast' = CeCall("position_settings", "", "", r.exc, ce, ceLast.op, ceLast.positions)
             /\ ro' = [ro EXCEPT !.arg = positions, !.before = ce]
    /\ ceCalls' = ceCalls + 1
    /\ UNCHANGED <<plugVars, rt, adv>>

\* The rotor lists swap_rotors is called with: of the machine's length and
\* of another, of four or five rotors and of three.
SwapLists(kind) ==
    IF kind = "classic"
    THEN {<<Named("B"), Named("III"), Named("II"), Named("I")>>, Rotors_C_I_II_III_IV,
          <<Named("B"), Named("I"), Named("II")>>}
    ELSE {<<rflctr, cer1, cer2, cer3>>, Rotors_adv5, <<rflctr, cer3, cer2>>}

\* machine.swap_rotors(rotors)
SwapRotors ==
    /\ ro.phase = "machine"
    /\ ceLast # NoCall
    /\ ce # NoMachine
    /\ ceCalls < MaxSets
    /\ \E rotors \in SwapLists(ce.kind) :
          LET r == CE_swap_rotors(ce, rotors)
          IN /\ ce' = r.ce
             /\ ceLast' = CeCall("swap_rotors", "", "", r.exc, ce, ceLast.op, ceLast.positions)
             /\ ro' = [ro EXCEPT !.arg = rotors, !.before = ce]
    /\ ceCalls' = ceCalls + 1
    /\ UNCHANGED <<plugVars, rt, adv>>

NextMachine ==
    \/ Construct
    \/ RingSettings
    \/ PositionSettings
    \/ SwapRotors

SpecMachine == InitMachine /\ [][NextMachine]_vars

----------------------------------------------------------------------------
(* SpecSession: a sending AdvancedEnigma under encode_advanced_string calls *)
(* with good and bad boundary lists, and a receiving one constructed alike  *)
(* under one decode_advanced_string call                                    *)

\* The most encode_advanced_string calls made on the sender.
MaxSessions == 2

\* The instruction lists: every ordering of every non-empty subset of S, R
\* and P.
InstructionLists ==
    {a \in UNION {[1..n -> {"S", "R", "P"}] : n \in 1..3} : Distinct(a)}

\* The constructor arguments: the demonstration's four rotors with each
\* instruction list.
SessionConstructions ==
    {AdvConfiguration(Rotors_adv4, Some(<<3, 31, 23>>), Some(<<"4", "D", "T">>),
                      Some(PlugLeads_8U_RF_2M), a) : a \in InstructionLists}

\* The message, and the boundary lists given with it: a good one, one not in
\* increasing order, one with a duplicate, one with a non-positive entry,
\* one with an entry that is the message's length.
SessionText == <<"H", "9", "H">>
SessionBoundaryLists == {<<1>>, <<2, 1>>, <<1, 1>>, <<0, 1>>, <<1, 3>>}

\* The draws of a session, for an instruction list.
SessionDraws(advanced) ==
    {Draws(ListOf(Len(advanced), LAMBDA i :
                     IF advanced[i] = "S" THEN 4
                     ELSE IF advanced[i] = "R" THEN 1295 ELSE 36),
           ListOf(Len(advanced), LAMBDA i : <<"K">>), "M"),
     Draws(ListOf(Len(advanced), LAMBDA i :
                     IF advanced[i] = "S" THEN 0
                     ELSE IF advanced[i] = "R" THEN 46655 ELSE 36),
           ListOf(Len(advanced), LAMBDA i : <<"Q", "X">>), "X")}

\* What the receiver is given besides what the sender returned: a text that
\* was never sent, and boundary lists besides the sender's.
StrayTexts == {<<"H", "9", "H">>}
DecodeBoundaryLists == {<<3>>, <<2, 1>>}

\* The two objects, the last call (op, the object it was made on as it was
\* before, its arguments and draws, what it returned or raised, the
\* caller's list after it), the last text the sender returned with its
\* boundary list, and the calls made.
SessionRun(config, sender, receiver, op, before, string, boundaries, d, out, exc, unpacked, total, sent, encodes, decodes) ==
    [phase |-> "session", config |-> config, sender |-> sender, receiver |-> receiver,
     op |-> op, before |-> before, string |-> string, boundaries |-> boundaries,
     draws |-> d, out |-> out, exc |-> exc, unpacked |-> unpacked,
     total |-> total, sent |-> sent, encodes |-> encodes, decodes |-> decodes]

InitSession ==
    /\ PlugIdle
    /\ StepIdle
    /\ RtIdle
    /\ RoIdle
    /\ \E c \in SessionConstructions :
          LET built == Enigma_init("advanced", c.rotors, c.rings, c.positions,
                                   c.plugboard, c.advanced)
          IN /\ built.exc = "none"
             /\ adv = SessionRun(c, built.e, built.e, "init", built.e, <<>>, <<>>,
                                 NoDraws, <<>>, "none", <<>>, <<>>, <<>>, 0, 0)

\* sender.encode_advanced_string(SessionText, B) with a list holding B.
SessionEncode ==
    /\ adv.phase = "session"
    /\ adv.encodes < MaxSessions
    /\ \E B \in SessionBoundaryLists : \E d \in SessionDraws(adv.config.advanced) :
          /\ PossibleDraws(adv.config.advanced, d)
          /\ adv' = Bind(encode_advanced_string(adv.sender, SessionText, B, d), LAMBDA r :
                       SessionRun(adv.config, r.e, adv.receiver, "encode", adv.sender,
                                  SessionText, B, d, r.out, r.exc, r.unpacked,
                                  IF r.exc = "none" THEN r.out ELSE adv.total,
                                  IF r.exc = "none" THEN B ELSE adv.sent,
                                  adv.encodes + 1, adv.decodes))
    /\ UNCHANGED <<plugVars, stepVars, rt, ro>>

\* receiver.decode_advanced_string(T, B) with a list holding B: T what the
\* sender returned last or a stray text, B the sender's list or another.
SessionDecode ==
    /\ adv.phase = "session"
    /\ adv.decodes = 0
    /\ \E T \in (IF adv.total = <<>> THEN {} ELSE {adv.total}) \cup StrayTexts :
       \E B \in (IF adv.total = <<>> THEN {} ELSE {adv.sent}) \cup DecodeBoundaryLists :
          adv' = Bind(decode_advanced_string(adv.receiver, T, B), LAMBDA r :
                    SessionRun(adv.config, adv.sender, r.e, "decode", adv.receiver,
                               T, B, NoDraws, r.out, r.exc, r.unpacked,
                               adv.total, adv.sent, adv.encodes, adv.decodes + 1))
    /\ UNCHANGED <<plugVars, stepVars, rt, ro>>

NextSession == SessionEncode \/ SessionDecode

SpecSession == InitSession /\ [][NextSession]_vars

----------------------------------------------------------------------------
(* SpecFacade: one Enigma / AdvancedEnigma object under the calls of its   *)
(* interface                                                               *)

\* The most calls made on the object, reset_to_original_position apart.
MaxFacadeCalls == 2

\* The constructor arguments: without a plugboard, with an empty one and
\* with a wired one; with and without rings and positions; with rotors of
\* 36 symbols and with the named rotors of 26.
FacadeConstructions ==
    {AdvConfiguration(Rotors_adv4, Some(<<3, 31, 23>>), Some(<<"4", "D", "T">>), p,
                      <<"S", "R", "P">>) : p \in {None, Some(<<>>), Some(PlugLeads_8U_RF_2M)}}
    \cup
    {AdvConfiguration(Rotors_adv5, None, None, Some(PlugLeads_8U_RF_2M), <<"P", "R", "S">>),
     AdvConfiguration(Rotors_B_I_II_III, None, None, Some(PlugLeads_8U_RF_2M),
                      <<"S", "R", "P">>)}

ClassicFacadeConstructions ==
    {Configuration("classic", Rotors_B_I_II_III, None, None, p) :
        p \in {None, Some(<<>>), Some(L4)}}

\* The arguments of the calls.
FacadeSymbols(kind) == IF kind = "classic" THEN {"A", "S"} ELSE {"H", "8"}
FacadeTexts(kind) == IF kind = "classic" THEN {<<"S", "A">>} ELSE {<<"8", "H">>}
FacadeRings(e) ==
    IF Len(e.ce.rotors) = 4 THEN {<<5, 6, 7>>, <<5, 0, 7>>} ELSE {<<5, 6, 7, 8>>, <<5, 6>>}
FacadePositions(e) ==
    IF Len(e.ce.rotors) = 4 THEN {<<"X", "Y", "Z">>, <<"X", "?", "Z">>, <<"X", "Y", "9">>}
    ELSE {<<"X", "Y", "Z", "W">>, <<"X", "Y">>}
FacadeDraws(advanced) == {d \in SessionDraws(advanced) : d.repeater = "M"}
FacadeBoundaries == <<1, 2>>

\* The object, the last call (op, the object as the call found it, its
\* argument and draws, what it returned or raised), a text that an object
\* constructed alike returned from encode_advanced_string, and the calls
\* made.
FacadeRun(config, e, op, before, arg, d, out, exc, received, calls) ==
    [phase |-> "facade", config |-> config, e |-> e, op |-> op, before |-> before,
     arg |-> arg, draws |-> d, out |-> out, exc |-> exc, received |-> received,
     calls |-> calls]

\* rt after a call that returned r.
FacadeCalled(op, arg, d, r) ==
    FacadeRun(rt.config, r.e, op, rt.e, arg, d, r.out, r.exc, rt.received, rt.calls + 1)

InitFacade ==
    /\ PlugIdle
    /\ StepIdle
    /\ AdvIdle
    /\ RoIdle
    /\ \/ \E c \in FacadeConstructions :
             LET built == Enigma_init("advanced", c.rotors, c.rings, c.positions,
                                      c.plugboard, c.advanced)
                 sent == encode_advanced_string(built.e, SessionText, FacadeBoundaries,
                                                CHOOSE d \in FacadeDraws(c.advanced) : TRUE)
             IN /\ built.exc = "none"
                /\ rt = FacadeRun(c, built.e, "init", built.e, <<>>, NoDraws, <<>>, "none",
                                  sent.out, 0)
       \/ \E c \in ClassicFacadeConstructions :
             LET built == Enigma_init("classic", c.rotors, c.rings, c.positions,
                                      c.plugboard, <<>>)
             IN /\ built.exc = "none"
                /\ rt = FacadeRun(c, built.e, "init", built.e, <<>>, NoDraws, <<>>, "none",
                                  <<>>, 0)

\* e.encode(char)
FacadeEncode ==
    /\ rt.phase = "facade"
    /\ rt.calls < MaxFacadeCalls
    /\ \E char \in FacadeSymbols(rt.e.kind) :
          rt' = Bind(Enigma_encode(rt.e, char), LAMBDA r :
                    FacadeCalled("encode", char, NoDraws, r))
    /\ UNCHANGED <<plugVars, stepVars, adv, ro>>

\* e.encode_string(string)
FacadeEncodeString ==
    /\ rt.phase = "facade"
    /\ rt.calls < MaxFacadeCalls
    /\ \E string \in FacadeTexts(rt.e.kind) :
          rt' = Bind(Enigma_encode_string(rt.e, string), LAMBDA r :
                    FacadeCalled("encode_string", string, NoDraws, r))
    /\ UNCHANGED <<plugVars, stepVars, adv, ro>>

\* e.ring_settings(rings)
FacadeRingSettings ==
    /\ rt.phase = "facade"
    /\ rt.calls < MaxFacadeCalls
    /\ \E rings \in FacadeRings(rt.e) :
          rt' = Bind(Enigma_ring_settings(rt.e, rings), LAMBDA r :
                    FacadeCalled("ring_settings", rings, NoDraws, r))
    /\ UNCHANGED <<plugVars, stepVars, adv, ro>>

\* e.position_settings(positions)
FacadePositionSettings ==
    /\ rt.phase = "facade"
    /\ rt.calls < MaxFacadeCalls
    /\ \E positions \in FacadePositions(rt.e) :
          rt' = Bind(Enigma_position_settings(rt.e, positions), LAMBDA r :
                    FacadeCalled("position_settings", positions, NoDraws, r))
    /\ UNCHANGED <<plugVars, stepVars, adv, ro>>

\* e.encode_advanced_string(SessionText, [1, 2])
FacadeEncodeAdvanced ==
    /\ rt.phase = "facade"
    /\ rt.e.kind = "advanced"
    /\ rt.calls < MaxFacadeCalls
    /\ \E d \in FacadeDraws(rt.e.advanced) :
          /\ PossibleDraws(rt.e.advanced, d)
          /\ rt' = Bind(encode_advanced_string(rt.e, SessionText, FacadeBoundaries, d), LAMBDA r :
                       FacadeCalled("encode_advanced_string", SessionText, d, r))
    /\ UNCHANGED <<plugVars, stepVars, adv, ro>>

\* e.decode_advanced_string(T, [1, 2]), T a text received or a stray one.
FacadeDecodeAdvanced ==
    /\ rt.phase = "facade"
    /\ rt.e.kind = "advanced"
    /\ rt.calls < MaxFacadeCalls
    /\ \E T \in {rt.received} \cup StrayTexts :
          rt' = Bind(decode_advanced_string(rt.e, T, FacadeBoundaries), LAMBDA r :
                    FacadeCalled("decode_advanced_string", T, NoDraws, r))
    /\ UNCHANGED <<plugVars, stepVars, adv, ro>>

\* e.reset_to_original_position()
FacadeReset ==
    /\ rt.phase = "facade"
    /\ rt.e.kind = "advanced"
    /\ rt.op # "reset_to_original_position"
    /\ rt' = Bind(reset_to_original_position(rt.e), LAMBDA r :
                 FacadeRun(rt.config, r.e, "reset_to_original_position", rt.e, <<>>,
                           NoDraws, <<>>, r.exc, rt.received, rt.calls))
    /\ UNCHANGED <<plugVars, stepVars, adv, ro>>

NextFacade ==
    \/ FacadeEncode
    \/ FacadeEncodeString
    \/ FacadeRingSettings
    \/ FacadePositionSettings
    \/ FacadeEncodeAdvanced
    \/ FacadeDecodeAdvanced
    \/ FacadeReset

SpecFacade == InitFacade /\ [][NextFacade]_vars

----------------------------------------------------------------------------
(* SpecLead: one PlugLead / AdvancedPlugLead under rewire and encode calls *)

\* The mappings a lead is constructed from and rewired with: strings of one,
\* two and three symbols, with equal and with different symbols, with a
\* digit and with a character that is no symbol.
LeadMappings ==
    {<<"A">>, <<"A", "B", "C">>}
    \cup {<<a, b>> : a \in {"A", "B", "C", "1", "?"}, b \in {"A", "B", "C", "1"}}

\* The lead, its constructor's outcome, and the last call with the lead as
\* the call found it.
LeadRun(kind, l, op, arg, out, exc, before) ==
    [phase |-> "lead", kind |-> kind, obj |-> l, op |-> op, arg |-> arg, out |-> out,
     exc |-> exc, before |-> before]

InitLead ==
    /\ pb = NoBoard
    /\ pbLast = NoCall
    /\ StepIdle
    /\ RtIdle
    /\ AdvIdle
    /\ RoIdle
    /\ \E kind \in {"classic", "advanced"} : \E mapping \in LeadMappings :
          LET r == PlugLeadInit(kind, mapping)
          IN ld = LeadRun(kind, r.lead, "init", mapping, "", r.exc, NoLeadObject)

\* lead.rewire(new_mapping)
Rewire ==
    /\ ld.phase = "lead"
    /\ ld.obj # NoLeadObject
    /\ \E new_mapping \in LeadMappings :
          LET r == PlugLeadRewire(ld.obj, new_mapping)
          IN ld' = LeadRun(ld.kind, r.lead, "rewire", new_mapping, "", r.exc, ld.obj)
    /\ UNCHANGED <<pb, pbLast, stepVars, rt, adv, ro>>

\* lead.encode(character)
LeadEncode ==
    /\ ld.phase = "lead"
    /\ ld.obj # NoLeadObject
    /\ \E character \in {"A", "B", "1"} :
          LET out == LeadObjectEncode(ld.obj, character)
          IN ld' = LeadRun(ld.kind, ld.obj, "encode", <<character>>,
                             IF out \in {"ValueError", "StopIteration"} THEN "" ELSE out,
                             IF out \in {"ValueError", "StopIteration"} THEN out ELSE "none",
                             ld.obj)
    /\ UNCHANGED <<pb, pbLast, stepVars, rt, adv, ro>>

NextLead == Rewire \/ LeadEncode

SpecLead == InitLead /\ [][NextLead]_vars

----------------------------------------------------------------------------
(* Properties of the rotor (SpecRotor)                                     *)

\* The wiring of r sends every symbol of the rotor's alphabet to a different
\* symbol of it, and that symbol back.
FixedPointFreeInvolution(r) ==
    LET abc == IF r.wide THEN lineup ELSE Letters
    IN /\ Len(r.mapping) = Len(abc)
       /\ \A i \in 1..Len(abc) :
             /\ InList(abc, r.mapping[i])
             /\ r.mapping[i] # abc[i]
             /\ r.mapping[ListIndex(abc, r.mapping[i]) + 1] = abc[i]

\* C14: valid_reflector() returns true exactly when the rotor has no notch
\* and its wiring is a fixed-point-free involution of the alphabet.
C14_ValidReflectorIffInvolution ==
    (ro.phase = "rotor" /\ ro.op = "valid_reflector") =>
        (ro.out = "True" <=> (ro.rotor.notch = "None" /\ FixedPointFreeInvolution(ro.rotor)))

\* The wiring w names every symbol of its alphabet (the 26 letters, or the
\* 36 letters and digits) exactly once.
Bijection(w) ==
    \/ Len(w) = Len(Letters) /\ {w[i] : i \in 1..Len(w)} = LetterSet
    \/ Len(w) = Len(lineup) /\ {w[i] : i \in 1..Len(w)} = LineupSet

\* C16: a rotor constructed from a custom specification, a wiring list or a
\* (wiring, notch) tuple, whose wiring is not a bijection of the alphabet is
\* rejected.
C16_NonBijectiveWiringRejected ==
    ( /\ ro.phase = "rotor"
      /\ ro.rotor_type.tag \in {"tuple", "list"}
      /\ ~Bijection(ro.rotor_type.mapping) )
    => ro.exc # "none"

\* The rotor's alphabet, the index of a symbol in it counted from 0, and
\* the symbol at an index taken modulo the alphabet's length.
AlphabetOf(r) == IF r.wide THEN lineup ELSE Letters
IndexIn(abc, c) == CHOOSE k \in 0..(Len(abc) - 1) : abc[k + 1] = c
SymbolAt(abc, k) == abc[(k % Len(abc)) + 1]

\* The wiring of r as a function of the symbol, and its inverse.
Wired(r, c) == r.mapping[IndexIn(AlphabetOf(r), c) + 1]
WiredBack(r, c) == AlphabetOf(r)[CHOOSE k \in 1..Len(r.mapping) : r.mapping[k] = c]

\* o = index(position) - ring + 1
ClaimedOffset(r) == IndexIn(AlphabetOf(r), r.position) - r.ring + 1

\* symbol((index(W[symbol((index(c) + o) mod N)]) - o) mod N), and the same
\* with the inverse wiring.
ClaimedRtl(r, c) ==
    LET abc == AlphabetOf(r)
        o == ClaimedOffset(r)
    IN SymbolAt(abc, IndexIn(abc, Wired(r, SymbolAt(abc, IndexIn(abc, c) + o))) - o)
ClaimedLtr(r, c) ==
    LET abc == AlphabetOf(r)
        o == ClaimedOffset(r)
    IN SymbolAt(abc, IndexIn(abc, WiredBack(r, SymbolAt(abc, IndexIn(abc, c) + o))) - o)

\* The last call was made with a symbol of the rotor's alphabet.
OnAlphabetSymbol == InList(AlphabetOf(ro.rotor), ro.char)

\* C23: encode_offset_rtl(c) is the wiring applied between a shift by the
\* offset o = index(position) - ring + 1 and the shift back, modulo the
\* alphabet's length (26, or 36 for the extended custom rotors), and
\* encode_offset_ltr(c) is the same with the inverse wiring.
C23_OffsetFormula ==
    /\ (ro.phase = "rotor" /\ ro.op = "encode_offset_rtl" /\ OnAlphabetSymbol)
       => ro.out = ClaimedRtl(ro.rotor, ro.char)
    /\ (ro.phase = "rotor" /\ ro.op = "encode_offset_ltr" /\ OnAlphabetSymbol
          /\ Bijection(ro.rotor.mapping))
       => ro.out = ClaimedLtr(ro.rotor, ro.char)

\* C23, its case: rotor I with ring 1 at position B sends J to M from right
\* to left.
C23_Witness ==
    /\ ro.phase = "rotor"
    /\ ro.op = "encode_offset_rtl"
    /\ ro.rotor_type = Named("I")
    /\ ro.rotor.ring = 1
    /\ ro.rotor.position = "B"
    /\ ro.char = "J"
    /\ ro.out = "M"

\* The symbols of the rotor's alphabet.
AlphabetSet(r) == {AlphabetOf(r)[i] : i \in 1..Len(AlphabetOf(r))}

\* C30: on a rotor whose wiring is a bijection, at the ring setting and
\* position it has, encode_offset_ltr undoes encode_offset_rtl and
\* encode_offset_rtl undoes encode_offset_ltr, and the same holds for
\* encode_left_to_right and encode_right_to_left: for the symbol of each
\* call made, and for every symbol of the alphabet each time the rotor has
\* advanced.
C30_OffsetEncodingsInverse ==
    (ro.phase = "rotor" /\ ro.exc = "none" /\ Bijection(ro.rotor.mapping)) =>
        /\ (ro.op = "encode_offset_rtl" /\ OnAlphabetSymbol)
           => encode_offset_ltr(ro.rotor, ro.out) = ro.char
        /\ (ro.op = "encode_offset_ltr" /\ OnAlphabetSymbol)
           => encode_offset_rtl(ro.rotor, ro.out) = ro.char
        /\ (ro.op = "encode_right_to_left" /\ OnAlphabetSymbol)
           => encode_left_to_right(ro.rotor, ro.out) = ro.char
        /\ (ro.op = "encode_left_to_right" /\ OnAlphabetSymbol)
           => encode_right_to_left(ro.rotor, ro.out) = ro.char
        /\ (ro.op = "advance_position")
           => \A c \in AlphabetSet(ro.rotor) :
                 /\ encode_offset_ltr(ro.rotor, encode_offset_rtl(ro.rotor, c)) = c
                 /\ encode_offset_rtl(ro.rotor, encode_offset_ltr(ro.rotor, c)) = c
                 /\ encode_left_to_right(ro.rotor, encode_right_to_left(ro.rotor, c)) = c
                 /\ encode_right_to_left(ro.rotor, encode_left_to_right(ro.rotor, c)) = c

\* C30, its case: the 36-symbol rotor cer1 with ring 36, advanced to
\* position 9, has sent the symbol 9 from right to left to another symbol.
C30_Witness ==
    /\ ro.phase = "rotor"
    /\ ro.op = "encode_offset_rtl"
    /\ ro.rotor_type = cer1
    /\ Bijection(ro.rotor.mapping)
    /\ ro.rotor.ring = 36
    /\ ro.rotor.position = "9"
    /\ ro.char = "9"
    /\ ro.out # "9"
    /\ encode_offset_ltr(ro.rotor, ro.out) = "9"

----------------------------------------------------------------------------
(* Properties of the machine (SpecMachine)                                 *)

\* The rotor stack rs is one of a machine as described: four or five
\* rotors, the first without notch and wired as a fixed-point-free
\* involution, none of the others flagged as a reflector.
WellFormedStack(rs) ==
    /\ Len(rs) \in {4, 5}
    /\ rs[1].notch = "None"
    /\ FixedPointFreeInvolution(rs[1])
    /\ \A i \in 2..Len(rs) : ~rs[i].is_reflector

\* The rotor list of the constructor call is not one of a machine as
\* described: its length, its first rotor or a later rotor rules it out.
IllFormedRequest ==
    \/ Len(ro.rotors) \notin {4, 5}
    \/ LET b == BuildRotor(ro.kind, ro.rotors[1])
       IN b.exc = "none" /\ (b.rotor.notch # "None" \/ ~FixedPointFreeInvolution(b.rotor))
    \/ \E i \in 2..Len(ro.rotors) :
          LET b == BuildRotor(ro.kind, ro.rotors[i])
          IN b.exc = "none" /\ b.rotor.is_reflector

\* C15: a machine that was constructed has four or five rotors, a first
\* rotor without notch and wired as a fixed-point-free involution, and no
\* reflector among the others; a construction that violates one of these
\* raises.
C15_MachineWellFormed ==
    (ro.phase = "machine" /\ ceLast # NoCall /\ ceLast.op = "init") =>
        /\ ceLast.exc = "none" => WellFormedStack(ce.rotors)
        /\ IllFormedRequest => ceLast.exc # "none"

\* The argument of the last setter call has not the machine's length, or an
\* entry that is no ring setting / no rotor position.
InvalidRingList ==
    \/ Len(ro.arg) # Len(ce.rotors) - 1
    \/ \E i \in 1..Len(ro.arg) : ro.arg[i] \notin 1..RingMax(ce.kind)
InvalidPositionList ==
    \/ Len(ro.arg) # Len(ce.rotors) - 1
    \/ \E i \in 1..Len(ro.arg) : ~ValidPosition(ce.kind, ro.arg[i])

\* C17: ring_settings and position_settings called with a list of the wrong
\* length or with an invalid entry at any index raise, and every rotor's
\* ring and position are then as they were before the call.
C17_InvalidSettingsLeaveRotors ==
    /\ (ro.phase = "machine" /\ ceLast # NoCall /\ ceLast.op = "ring_settings" /\ InvalidRingList)
       => (ceLast.exc # "none" /\ Rings(ce) = ceLast.rings /\ Positions(ce) = ceLast.positions)
    /\ (ro.phase = "machine" /\ ceLast # NoCall /\ ceLast.op = "position_settings" /\ InvalidPositionList)
       => (ceLast.exc # "none" /\ Rings(ce) = ceLast.rings /\ Positions(ce) = ceLast.positions)

----------------------------------------------------------------------------
(* Properties of the session protocol (SpecSession)                        *)

\* B is no list of boundaries for a message of n symbols: it is not in
\* strictly increasing order (a duplicate included), or it has an entry that
\* is not positive or not below n.
NoBoundaryList(B, n) ==
    \/ \E i \in 1..Len(B) : \E j \in 1..Len(B) : i < j /\ B[i] >= B[j]
    \/ \E i \in 1..Len(B) : B[i] <= 0 \/ B[i] >= n

\* C18: encode_advanced_string called with a list that is no list of
\* boundaries for the message raises before it encodes a symbol: the rotor
\* positions, the machine the object owns and the session indices it stores
\* are as before the call.
C18_BadBoundariesLeaveSender ==
    ( /\ adv.phase = "session"
      /\ adv.op = "encode"
      /\ NoBoundaryList(adv.boundaries, Len(adv.string)) )
    => ( /\ adv.exc # "none"
         /\ Positions(adv.sender.ce) = Positions(adv.before.ce)
         /\ adv.sender.ce = adv.before.ce
         /\ adv.sender.swapS = adv.before.swapS
         /\ adv.sender.swapR = adv.before.swapR
         /\ adv.sender.swapP = adv.before.swapP )

\* C18, its case: a list with a repeated boundary given to a sender that
\* has encoded a session before, so that its machine and its indices are no
\* longer those of its construction.
C18_Witness ==
    /\ adv.phase = "session"
    /\ adv.op = "encode"
    /\ adv.boundaries = <<1, 1>>
    /\ adv.exc = "ValueError"
    /\ adv.encodes = 2
    /\ adv.total # <<>>
    /\ adv.before.swapS # Unset
    /\ Positions(adv.before.ce) # <<"A", "4", "D", "T">>

\* What the receiver of the last call, as it was before the call, makes of
\* the text it was given, and where the first doubled letter in it ends.
Jumbled == Enigma_encode_string(adv.before, adv.string).out
MarkerEnd == SearchDoubledEnd(Jumbled)

\* The text given to the last call has no doubled-letter marker, or a
\* boundary given with it is beyond the message that follows the marker.
MalformedInput ==
    \/ MarkerEnd = Unset
    \/ /\ MarkerEnd # Unset
       /\ \E i \in 1..Len(adv.boundaries) :
             adv.boundaries[i] >= Len(adv.string) - MarkerEnd

\* C19: decode_advanced_string given a text without marker, or a boundary
\* beyond the message body, fails and leaves every rotor position as it was
\* before the call.
C19_MalformedInputLeavesPositions ==
    (adv.phase = "session" /\ adv.op = "decode" /\ MalformedInput)
    => ( /\ adv.exc # "none"
         /\ Positions(adv.receiver.ce) = Positions(adv.before.ce) )

\* The session index an object stores for an instruction.
SwapOf(e, instruction) ==
    IF instruction = "S" THEN e.swapS
    ELSE IF instruction = "R" THEN e.swapR
    ELSE e.swapP

\* The instructions of the object's list.
Listed(e) == {e.advanced[i] : i \in 1..Len(e.advanced)}

\* C20: with every instruction list that orders a non-empty subset of S, R
\* and P, encode_advanced_string given a list of boundaries completes
\* without error, draws the session index of each listed instruction in the
\* listed order and leaves the index of every other instruction alone; and
\* decode_advanced_string on a receiver constructed alike, given what a
\* sender's first session returned with the sender's list, completes
\* without error.
C20_EveryInstructionListCompletes ==
    /\ ( /\ adv.phase = "session"
         /\ adv.op = "encode"
         /\ ~NoBoundaryList(adv.boundaries, Len(adv.string)) )
       => ( /\ adv.exc = "none"
            /\ \A i \in 1..Len(adv.sender.advanced) :
                  SwapOf(adv.sender, adv.sender.advanced[i]) = adv.draws.index[i]
            /\ \A x \in {"S", "R", "P"} \ Listed(adv.sender) :
                  SwapOf(adv.sender, x) = SwapOf(adv.before, x) )
    /\ ( /\ adv.phase = "session"
         /\ adv.op = "decode"
         /\ adv.encodes = 1
         /\ adv.string = adv.total
         /\ adv.boundaries = adv.sent )
       => adv.exc = "none"

\* C21: swap_rotors with a list of four or five rotor specifications, as
\* many as the machine has rotors, replaces the machine's rotors by the
\* rotors built from the list; with a list of any other length it raises
\* ValueError and the rotors are unchanged.
C21_SwapRotorsReplaces ==
    (ro.phase = "machine" /\ ceLast # NoCall /\ ceLast.op = "swap_rotors") =>
        IF Len(ro.arg) \in {4, 5} /\ Len(ro.arg) = Len(ro.before.rotors)
        THEN /\ ceLast.exc = "none"
             /\ Len(ce.rotors) = Len(ro.arg)
             /\ \A i \in 1..Len(ro.arg) : ce.rotors[i] = BuildRotor(ce.kind, ro.arg[i]).rotor
        ELSE /\ ceLast.exc = "ValueError"
             /\ ce.rotors = ro.before.rotors

\* C26: in every auxiliary string auxiliary_string generates, the first
\* pair of adjacent equal letters is the marker appended at its end: the
\* search for the first doubled letter ends at the end of the string.
C26_FirstDoubledIsMarker ==
    (adv.phase = "session" /\ adv.op = "encode" /\ adv.exc = "none")
    => Bind(auxiliary_string(adv.before, adv.draws), LAMBDA a :
          a.exc = "none" /\ SearchDoubledEnd(a.out) = Len(a.out))

\* C31: a call of encode_advanced_string or decode_advanced_string that
\* returns leaves the caller's boundary list as it was given.
C31_BoundaryListUnchanged ==
    ( /\ adv.phase = "session"
      /\ adv.op \in {"encode", "decode"}
      /\ adv.exc = "none" )
    => adv.unpacked = adv.boundaries

----------------------------------------------------------------------------
(* Properties of the facade (SpecFacade)                                   *)

\* The machine m has the rotor specifications, the ring settings and the
\* rotor positions of the constructor arguments c; rings and positions not
\* given are the rotors' defaults, 1 and A.
AsConstructed(m, c) ==
    /\ CurrentSetup(m).rotors = c.rotors
    /\ IF c.rings.given THEN Tail(Rings(m)) = c.rings.val
       ELSE \A i \in 1..Len(m.rotors) : m.rotors[i].ring = 1
    /\ IF c.positions.given THEN Tail(Positions(m)) = c.positions.val
       ELSE \A i \in 1..Len(m.rotors) : m.rotors[i].position = "A"

\* C22: after reset_to_original_position, whatever calls came before it, the
\* machine's rotor specifications, ring settings and rotor positions are
\* those given at construction, and the plugboard is as the reset found it.
C22_ResetRestoresConstruction ==
    (rt.phase = "facade" /\ rt.op = "reset_to_original_position") =>
        /\ rt.exc = "none"
        /\ AsConstructed(rt.e.ce, rt.config)
        /\ rt.e.pb = rt.before.pb

\* C22, its case: a reset of an object whose rotors, rings and positions
\* had all moved away from the construction's.
C22_Witness ==
    /\ rt.phase = "facade"
    /\ rt.op = "reset_to_original_position"
    /\ rt.before.swapS # Unset
    /\ CurrentSetup(rt.before.ce).rotors # rt.config.rotors
    /\ Rings(rt.before.ce) # Rings(rt.e.ce)
    /\ Positions(rt.before.ce) # Positions(rt.e.ce)
    /\ rt.e.pb.given

\* plugboard.encode(Machine.encode(plugboard.encode(char))) on the object
\* e, and Machine.encode(char) when e has no plugboard.
ThroughPlugboard(e, char) ==
    IF ~e.pb.given THEN CE_encode(e.ce, char).out
    ELSE PlugboardEncodeOne(e.pb.val,
                            CE_encode(e.ce, PlugboardEncodeOne(e.pb.val, char)).out)

\* C24: encode(char) returns Machine.encode(char) when no plugboard was
\* given and plugboard.encode(Machine.encode(plugboard.encode(char)))
\* otherwise; in both cases the machine has stepped exactly once and the
\* plugboard's connections are unchanged.
C24_FacadeEncodeDelegates ==
    (rt.phase = "facade" /\ rt.op = "encode") =>
        /\ rt.exc = "none"
        /\ rt.out = ThroughPlugboard(rt.before, rt.arg)
        /\ Positions(rt.e.ce) = Positions(CE_rotate(rt.before.ce))
        /\ Rings(rt.e.ce) = Rings(rt.before.ce)
        /\ rt.e.pb = rt.before.pb

\* The segments of partitioned with an odd number (parity 1) or an even
\* number (parity 0), one after the other, from segment i on.
RECURSIVE SegmentsOf(_, _, _)
SegmentsOf(partitioned, parity, i) ==
    IF i > Len(partitioned) THEN <<>>
    ELSE (IF i % 2 = parity THEN partitioned[i] ELSE <<>>)
         \o SegmentsOf(partitioned, parity, i + 1)

\* What one machine built from setup returns for text, encoding it without
\* interruption behind the plugboard of e.
ContinuousStream(e, setup, text) ==
    Bind(CE_init("advanced", setup.rotors, Some(setup.rings), Some(setup.positions)),
         LAMBDA m : Enigma_encode_string([e EXCEPT !.ce = m.ce], text).out)

\* The two streams taken in turn, segment by segment, from segment i on:
\* as many symbols of odd for an odd segment, of even for an even one.
RECURSIVE Interleaved(_, _, _, _)
Interleaved(partitioned, i, odd, even) ==
    IF i > Len(partitioned) THEN <<>>
    ELSE Bind(Len(partitioned[i]), LAMBDA n :
            IF i % 2 = 1
            THEN SubSeq(odd, 1, n)
                 \o Interleaved(partitioned, i + 1, SubSeq(odd, n + 1, Len(odd)), even)
            ELSE SubSeq(even, 1, n)
                 \o Interleaved(partitioned, i + 1, odd, SubSeq(even, n + 1, Len(even))))

\* The object after auxiliary_string and the encoding of what it returned,
\* with the prefix as out.
AfterPrefix(e, d) ==
    Bind(auxiliary_string(e, d), LAMBDA pre : Enigma_encode_string(pre.e, pre.out))

\* The construction's rotor specifications and ring settings (the rotors'
\* default 1 when none were given), with the positions of machine m.
OriginalSetup(e, m) ==
    Setup(e.initials.rotors,
          IF e.initials.rings.given THEN e.initials.rings.val
          ELSE ListOf(Len(e.initials.rotors) - 1, LAMBDA i : 1),
          Tail(Positions(m)))

\* C27: what encode_advanced_string returns behind the prefix is the
\* interleaving, segment by segment, of two continuous streams: the odd
\* segments encoded by one machine started in the session configuration,
\* the even segments by one machine in the original configuration started
\* from the positions reached after the prefix.
C27_BodyInterleavesTwoStreams ==
    (rt.phase = "facade" /\ rt.op = "encode_advanced_string" /\ rt.exc = "none") =>
        Bind(AfterPrefix(rt.before, rt.draws), LAMBDA p :
        Bind(Partitioned(rt.arg, FacadeBoundaries), LAMBDA partitioned :
            SubSeq(rt.out, Len(p.out) + 1, Len(rt.out))
            = Interleaved(partitioned, 1,
                  ContinuousStream(p.e, SessionSetup(p.e.ce, p.e.swapS, p.e.swapR, p.e.swapP),
                                   SegmentsOf(partitioned, 1, 1)),
                  ContinuousStream(p.e, OriginalSetup(p.e, p.e.ce),
                                   SegmentsOf(partitioned, 0, 1)))))

\* The list rotors with its last three entries reordered by the rotor-swap
\* permutation of index s, the entries before them in place.
ReorderedLastThree(rotors, s) ==
    [i \in 1..Len(rotors) |->
        IF i <= Len(rotors) - 3 THEN rotors[i]
        ELSE rotors[Len(rotors) - 3 + swap_perms[s + 1][i - (Len(rotors) - 3)] + 1]]

\* The triple behind the entry the rotor at index 1 has in current, when
\* there are five rotors.
BehindIndexOne(current, triple) ==
    IF Len(current) = 5 THEN <<current[2]>> \o triple ELSE triple

\* The session configuration for the draws d on the machine m of an object
\* constructed with the rotor list rotors.
ClaimedSession(rotors, m, advanced, d) ==
    Setup(ReorderedLastThree(rotors, SettingFor(d.index, advanced, "S")),
          BehindIndexOne(Rings(m), ring_perms(SettingFor(d.index, advanced, "R"))),
          BehindIndexOne(Positions(m), position_perms(SettingFor(d.index, advanced, "P"))))

\* The machine built from setup after encoding text behind e's plugboard.
MachineAfter(e, setup, text) ==
    Bind(CE_init("advanced", setup.rotors, Some(setup.rings), Some(setup.positions)),
         LAMBDA m : Enigma_encode_string([e EXCEPT !.ce = m.ce], text).e.ce)

\* C28: the session configuration of encode_advanced_string has the
\* original rotor list with its last three entries reordered by the selected
\* permutation, the selected ring and position triples on the last three
\* rotors and, with five rotors, the current ring and position of the rotor
\* at index 1; decode_advanced_string derives the same from the text an
\* object constructed alike has sent. The machine a call on three segments
\* leaves is the session machine after the two odd segments.
C28_SessionConfiguration ==
    /\ (rt.phase = "facade" /\ rt.op = "encode_advanced_string" /\ rt.exc = "none") =>
          Bind(AfterPrefix(rt.before, rt.draws), LAMBDA p :
              rt.e.ce = MachineAfter(p.e,
                            ClaimedSession(rt.config.rotors, p.e.ce, rt.e.advanced, rt.draws),
                            SegmentsOf(Partitioned(rt.arg, FacadeBoundaries), 1, 1)))
    /\ ( /\ rt.phase = "facade"
         /\ rt.op = "decode_advanced_string"
         /\ rt.exc = "none"
         /\ rt.arg = rt.received
         /\ rt.before.ce = Enigma_init("advanced", rt.config.rotors, rt.config.rings,
                                       rt.config.positions, rt.config.plugboard,
                                       rt.config.advanced).e.ce )
       => Bind(CHOOSE d \in FacadeDraws(rt.e.advanced) : TRUE, LAMBDA d :
              rt.e.ce = encode_advanced_string(rt.before, SessionText, FacadeBoundaries, d).e.ce)

\* C29: in every encode_advanced_string call, whatever calls were made on
\* the object before it, the prefix returned is the auxiliary string
\* encoded by a machine with the rotor specifications, ring settings and
\* start positions of the construction.
C29_PrefixByOriginalConfiguration ==
    (rt.phase = "facade" /\ rt.op = "encode_advanced_string" /\ rt.exc = "none") =>
        Bind(auxiliary_string(rt.before, rt.draws), LAMBDA pre :
            SubSeq(rt.out, 1, Len(pre.out))
            = Enigma_encode_string(reset_to_original_position(pre.e).e, pre.out).out)

\* C32: in every state of the object's machine, whatever position_settings,
\* encode and protocol calls were made, the position of every rotor is a
\* symbol of that rotor's alphabet: a letter for a rotor of 26 wires, a
\* letter or a digit for a rotor of 36.
C32_PositionsInOwnAlphabet ==
    (rt.phase = "facade" /\ rt.e.ce # NoMachine) =>
        \A i \in 1..Len(rt.e.ce.rotors) :
            rt.e.ce.rotors[i].position \in AlphabetSet(rt.e.ce.rotors[i])

----------------------------------------------------------------------------
(* Properties of the lead (SpecLead)                                       *)

\* C25: a lead holds two different symbols after its construction and after
\* every rewire call; rewire with a mapping of two equal symbols raises and
\* leaves the lead as it was.
C25_LeadHoldsTwoSymbols ==
    /\ (ld.phase = "lead" /\ ld.obj # NoLeadObject) => Cardinality(ld.obj.pair) = 2
    /\ ( /\ ld.phase = "lead"
         /\ ld.op = "rewire"
         /\ Len(ld.arg) = 2
         /\ ld.arg[1] = ld.arg[2] )
       => (ld.exc # "none" /\ ld.obj = ld.before)

====
